---- MODULE Spec2Model ----
(***************************************************************************)
(* Model of the MCP protocol front-end of the ClairAI admin tool layer:    *)
(* the backend HTTP gateway (admin_mcp/tools/base.py), the tool registry   *)
(* and the JSON-RPC dispatcher (admin_mcp/server.py), the /mcp endpoint,   *)
(* the session manager and the two streaming channels.                     *)
(*                                                                         *)
(* Python values are encoded as follows.  None, a JSON null and the string *)
(* ids, tokens and names are strings (None is the string "None").  A dict  *)
(* is a TLA+ function from keys to values, so DOMAIN d is its key set.  A   *)
(* value that may be of several JSON types is a record tagged by t.        *)
(***************************************************************************)
EXTENDS Integers, Sequences, FiniteSets, TLC

VARIABLES
    settings_bearer_token, \* config.py: settings.bearer_token
    mcp_pc,          \* position of the POST /mcp handler
    request_token,   \* base.py: the request_token ContextVar of the handler
    body,            \* the parsed request body (local of the handler)
    loop_i,          \* index of the next batch element of the for loop
    responses,       \* local list `responses` of mcp_endpoint
    http,            \* the HTTP response the handler returned
    dispatched,      \* history: the (request, response) pairs of process_mcp_request
    tool_calls,      \* history: tool functions invoked
    backend_calls,   \* history: outbound requests issued by make_request
    gw_in,           \* input of a stand-alone make_request call
    gw_out,          \* what that make_request call returned
    sessions,        \* server.py: session_manager.sessions
    issued,          \* the session ids uuid4 has produced so far
    now,             \* the clock read by datetime.utcnow()
    idle,            \* the GET /mcp/sse channels: position, session, events
    sreq,            \* the POST /mcp/sse/{session_id} handler and its stream
    contexts,        \* the value of request_token in the context of each task
    tasks,           \* the concurrent POST /mcp handlers: position, request, calls
    sm,              \* history: the calls made on the session manager
    cli_in,          \* input of a call_mcp_tool call: arguments and endpoint
    cli_out,         \* what that call_mcp_tool call returned
    api_in,          \* input of a POST /api/tools/{tool_name} call
    api_out          \* the HTTP answer of that call and the calls it made

mcp_vars == <<mcp_pc, request_token, body, loop_i, responses, http, dispatched>>

log_vars == <<tool_calls, backend_calls>>

gw_vars == <<gw_in, gw_out>>

sse_vars == <<sessions, issued, now, idle, sreq>>

api_vars == <<api_in, api_out>>

ext_vars == <<contexts, tasks, sm, cli_in, cli_out, api_vars>>

vars == <<settings_bearer_token, mcp_vars, log_vars, gw_vars, sse_vars, ext_vars>>

None == "None"

\* ------------------------------------------------------------------ bounds
MaxBatch == 3

\* ------------------------------------------------------------ config.py
BackendApiUrl == "https://backend.clairai.cloud"

ServerName == "clairai-admin-mcp"

ServerVersion == "1.0.0"

\* ------------------------------------------------- the backend (environment)
\* Bodies a backend may answer with; the first one is a JSON document.
JsonBody == "{\"x\": 1}"

BackendTexts == {JsonBody, "not json"}

HttpStatuses == {200, 204, 302, 404, 500}

\* Every outcome of the one outbound call of make_request.
Outcomes ==
    [kind : {"http"}, status : HttpStatuses, text : BackendTexts]
      \cup {[kind |-> "timeout", status |-> 0, text |-> "timed out"],
            [kind |-> "error", status |-> 0, text |-> "connection refused"]}

\* response.json(): parses the body or raises.
IsJson(text) == text = JsonBody

JsonLoads(text) == [x |-> 1]

\* json.dumps of a parsed backend document.
JsonDumpsData(data) ==
    IF "raw_response" \in DOMAIN data
      THEN "{\"raw_response\": \"" \o data.raw_response \o "\"}"
      ELSE JsonBody

\* ---------------------------------------------------------- tools/base.py
get_auth_headers(token, default) ==
    IF token # None /\ token # ""
      THEN [Authorization |-> "Bearer " \o token]
      ELSE IF default # None /\ default # ""
             THEN [Authorization |-> "Bearer " \o default]
             ELSE <<>>

\* httpx: Response.raise_for_status() raises HTTPStatusError unless 2xx.
is_success(status) == 200 <= status /\ status <= 299

\* The try block of make_request: the value it returns or the exception it
\* raises, for one outcome of client.request.
request_attempt(outcome) ==
    IF outcome.kind = "timeout"
      THEN [ok |-> FALSE, exc |-> "TimeoutException", msg |-> outcome.text, status |-> 0]
    ELSE IF outcome.kind = "error"
      THEN [ok |-> FALSE, exc |-> "ConnectError", msg |-> outcome.text, status |-> 0]
    ELSE IF ~is_success(outcome.status)
      THEN [ok |-> FALSE, exc |-> "HTTPStatusError", msg |-> outcome.text,
            status |-> outcome.status]
    ELSE [ok |-> TRUE,
          val |-> [success |-> TRUE,
                   data |-> IF IsJson(outcome.text) THEN JsonLoads(outcome.text)
                            ELSE [raw_response |-> outcome.text],
                   status_code |-> outcome.status]]

make_request_NoTimeoutClause(call, token, default, outcome) ==
    LET att == request_attempt(outcome)
        req == [method |-> call.method, url |-> BackendApiUrl \o call.endpoint,
                headers |-> [k \in (DOMAIN get_auth_headers(token, default))
                                     \cup {"Content-Type"} |->
                               IF k = "Content-Type" THEN "application/json"
                               ELSE get_auth_headers(token, default)[k]],
                json |-> call.json, params |-> call.params]
    IN  [raised |-> FALSE, request |-> req,
         val |-> IF att.ok THEN att.val
                 ELSE IF att.exc = "HTTPStatusError"
                   THEN [success |-> FALSE,
                         error |-> "HTTP " \o ToString(att.status) \o ": " \o att.msg,
                         status_code |-> att.status]
                 ELSE [success |-> FALSE, error |-> att.msg, status_code |-> 500]]

\* make_request: one outbound call, every outcome turned into a ToolCallResult.
\* `raised` tells whether an exception leaves the function.
make_request(call, token, default, outcome) ==
    LET att == request_attempt(outcome)
        auth == get_auth_headers(token, default)
        req == [method |-> call.method, url |-> BackendApiUrl \o call.endpoint,
                headers |-> [k \in (DOMAIN auth) \cup {"Content-Type"} |->
                               IF k = "Content-Type" THEN "application/json"
                               ELSE auth[k]],
                json |-> call.json, params |-> call.params]
    IN  [raised |-> FALSE, request |-> req,
         val |-> IF att.ok THEN att.val
                 ELSE IF att.exc = "TimeoutException"
                   THEN [success |-> FALSE,
                         error |-> "Request timeout: " \o att.msg,
                         status_code |-> 408]
                 ELSE IF att.exc = "HTTPStatusError"
                   THEN [success |-> FALSE,
                         error |-> "HTTP " \o ToString(att.status) \o ": " \o att.msg,
                         status_code |-> att.status]
                 ELSE [success |-> FALSE, error |-> att.msg, status_code |-> 500]]

\* ------------------------------------------------------- python helpers
\* dict.get(key, default)
Get(d, k, default) == IF k \in DOMAIN d THEN d[k] ELSE default

\* A JSON value that is absent from the request.
NoData == [present |-> FALSE]

Data(d) == [present |-> TRUE, kv |-> d]

EmptyDict == [k \in {} |-> None]

\* --------------------------------- server.py TOOLS and the tools package
\* The keys of TOOLS in insertion order.
ToolNames ==
    <<"onboard_logging_config", "get_logging_configs", "delete_logging_config",
      "get_firing_alerts", "get_datasources", "create_alert", "get_all_alerts",
      "update_alert", "delete_alert", "get_specific_alert",
      "get_metrics_namespaces", "get_metrics_metadata">>

TOOLS == {ToolNames[i] : i \in 1..Len(ToolNames)}

AlertFields ==
    {"title", "severity", "receiver", "description", "datasource",
     "threshold_value", "for_duration", "lookback_seconds", "prom_expr", "log_expr"}

\* The keyword parameters of each tool function: those without a default
\* (required) and those with one (optional).
ToolParams(name) ==
    CASE name \in {"onboard_logging_config", "delete_logging_config"} ->
           [required |-> {"client_id", "aws_account_id", "source", "log_selector"},
            optional |-> {}]
      [] name = "get_logging_configs" ->
           [required |-> {"client_id", "aws_account_id"}, optional |-> {}]
      [] name \in {"get_firing_alerts", "get_datasources", "get_all_alerts"} ->
           [required |-> {}, optional |-> {}]
      [] name = "create_alert" ->
           [required |-> {"title", "severity", "receiver", "description",
                          "datasource", "threshold_value"},
            optional |-> {"for_duration", "lookback_seconds", "prom_expr", "log_expr"}]
      [] name = "update_alert" ->
           [required |-> {"alert_id"}, optional |-> AlertFields]
      [] name = "delete_alert" ->
           [required |-> {"alert_uid"}, optional |-> {}]
      [] name = "get_specific_alert" ->
           [required |-> {"alert_id"}, optional |-> {}]
      [] name = "get_metrics_namespaces" ->
           [required |-> {"account_id", "region", "timerange"}, optional |-> {}]
      [] name = "get_metrics_metadata" ->
           [required |-> {"account_id", "region", "timerange", "service"},
            optional |-> {}]

\* The inputSchema.required list of each entry of TOOLS.
SchemaRequired(name) ==
    IF name = "create_alert"
      THEN {"title", "severity", "receiver", "description", "datasource",
            "threshold_value"}
      ELSE ToolParams(name).required

\* create_alert: the payload assembled from the bound arguments.
create_alert_payload(kv) ==
    LET always == {"title", "for_duration", "severity", "receiver",
                   "lookback_seconds", "description", "datasource",
                   "threshold_value", "include_view_data", "include_dashboard"}
        truthy(k) == k \in DOMAIN kv /\ kv[k] # None /\ kv[k] # ""
        extra == {k \in {"prom_expr", "log_expr"} : truthy(k)}
    IN  [k \in always \cup extra |->
           CASE k \in {"include_view_data", "include_dashboard"} -> "False"
             [] k = "for_duration" -> Get(kv, k, "5m")
             [] k = "lookback_seconds" -> Get(kv, k, "600")
             [] OTHER -> kv[k]]

\* update_alert: the payload holds the fields that are not None.
update_alert_payload(kv) ==
    [k \in {f \in AlertFields : f \in DOMAIN kv /\ kv[f] # None} |-> kv[k]]

\* The single make_request call each tool function makes, for bound arguments.
tool_request(name, kv) ==
    CASE name = "onboard_logging_config" ->
           [method |-> "POST", endpoint |-> "/api/v1/logging/onboard",
            json |-> Data(kv), params |-> NoData]
      [] name = "get_logging_configs" ->
           [method |-> "GET",
            endpoint |-> "/api/v1/logging/configs/" \o kv["client_id"]
                           \o "/awsid-" \o kv["aws_account_id"],
            json |-> NoData, params |-> NoData]
      [] name = "delete_logging_config" ->
           [method |-> "DELETE", endpoint |-> "/api/v1/logging/deboard",
            json |-> Data(kv), params |-> NoData]
      [] name = "get_firing_alerts" ->
           [method |-> "GET", endpoint |-> "/api/v1/alerts/firing-alerts",
            json |-> NoData, params |-> NoData]
      [] name = "get_datasources" ->
           [method |-> "GET", endpoint |-> "/api/v1/alerts/datasources",
            json |-> NoData, params |-> NoData]
      [] name = "create_alert" ->
           [method |-> "POST", endpoint |-> "/api/v1/alerts/",
            json |-> Data(create_alert_payload(kv)), params |-> NoData]
      [] name = "get_all_alerts" ->
           [method |-> "GET", endpoint |-> "/api/v1/alerts/get_alerts/",
            json |-> NoData, params |-> NoData]
      [] name = "update_alert" ->
           [method |-> "PUT",
            endpoint |-> "/api/v1/alerts/update_alerts/" \o kv["alert_id"],
            json |-> Data(update_alert_payload(kv)), params |-> NoData]
      [] name = "delete_alert" ->
           [method |-> "DELETE",
            endpoint |-> "/api/v1/alerts/delete_alerts/" \o kv["alert_uid"],
            json |-> NoData, params |-> NoData]
      [] name = "get_specific_alert" ->
           [method |-> "GET",
            endpoint |-> "/api/v1/alerts/specific_alerts/" \o kv["alert_id"],
            json |-> NoData, params |-> NoData]
      [] name = "get_metrics_namespaces" ->
           [method |-> "GET", endpoint |-> "/metrics-namespaces",
            json |-> NoData, params |-> Data(kv)]
      [] name = "get_metrics_metadata" ->
           [method |-> "GET", endpoint |-> "/metrics-metadata",
            json |-> NoData, params |-> Data(kv)]

\* tool_func(**arguments): binding the keyword arguments raises TypeError when
\* arguments is no mapping, lacks a required parameter or names an unknown one.
bind_arguments(name, arguments) ==
    IF arguments.t # "object"
      THEN [ok |-> FALSE, exc |-> "TypeError",
            msg |-> "argument after ** must be a mapping"]
    ELSE IF ~(ToolParams(name).required \subseteq DOMAIN arguments.kv)
      THEN [ok |-> FALSE, exc |-> "TypeError",
            msg |-> name \o "() missing required argument"]
    ELSE IF ~(DOMAIN arguments.kv \subseteq
                ToolParams(name).required \cup ToolParams(name).optional)
      THEN [ok |-> FALSE, exc |-> "TypeError",
            msg |-> name \o "() got an unexpected keyword argument"]
    ELSE [ok |-> TRUE, kv |-> arguments.kv]

\* ------------------------------------------------------------- server.py
\* json.dumps(result, indent=2, default=str) of a ToolCallResult, keys in
\* insertion order (white space and string escapes aside).
JsonDumpsResult(r) ==
    IF "error" \in DOMAIN r
      THEN "{\"success\": false, \"error\": \"" \o r.error
             \o "\", \"status_code\": " \o ToString(r.status_code) \o "}"
      ELSE "{\"success\": true, \"data\": " \o JsonDumpsData(r.data)
             \o ", \"status_code\": " \o ToString(r.status_code) \o "}"

\* json.dumps({"error": str(e)}, indent=2)
JsonDumpsError(msg) == "{\"error\": \"" \o msg \o "\"}"

\* Python None where a dict may stand (a response, a session).
NoneObj == [isNone |-> TRUE]

\* bool(x) of None or of a dict.
Truthy(d) == d # NoneObj /\ DOMAIN d # {}

NoCalls == [invoked |-> <<>>, requests |-> <<>>]

Raise(exc, msg, calls) ==
    [raised |-> TRUE, exc |-> exc, msg |-> msg,
     invoked |-> calls.invoked, requests |-> calls.requests]

Return(val, calls) ==
    [raised |-> FALSE, val |-> val,
     invoked |-> calls.invoked, requests |-> calls.requests]

handle_initialize ==
    [protocolVersion |-> "2026-02-02",
     capabilities |-> [tools |-> [listChanged |-> TRUE],
                       resources |-> [subscribe |-> FALSE, listChanged |-> FALSE],
                       prompts |-> [listChanged |-> FALSE]],
     serverInfo |-> [name |-> ServerName, version |-> ServerVersion]]

handle_list_tools ==
    [tools |-> [i \in 1..Len(ToolNames) |->
                  [name |-> ToolNames[i],
                   inputSchema |->
                     [properties |-> ToolParams(ToolNames[i]).required
                                       \cup ToolParams(ToolNames[i]).optional,
                      required |-> SchemaRequired(ToolNames[i])]]]]

handle_list_resources == [resources |-> <<>>]

handle_list_prompts == [prompts |-> <<>>]

invoke_tool_IsErrorNotNegated(tool_name, arguments, token, default, outcome) ==
    LET b == bind_arguments(tool_name, arguments)
        r == make_request(tool_request(tool_name, b.kv), token, default, outcome)
    IN  IF ~b.ok
          THEN Return([content |-> <<[type |-> "text", text |-> JsonDumpsError(b.msg)]>>,
                       isError |-> TRUE],
                      [invoked |-> <<[tool |-> tool_name, bound |-> FALSE,
                                      result |-> NoneObj, error |-> b.msg]>>,
                       requests |-> <<>>])
        ELSE Return([content |-> <<[type |-> "text", text |-> JsonDumpsResult(r.val)]>>,
                     isError |-> Get(r.val, "success", TRUE)],
                    [invoked |-> <<[tool |-> tool_name, bound |-> TRUE,
                                    result |-> r.val, error |-> None]>>,
                     requests |-> <<r.request>>])

invoke_tool_NoExcept(tool_name, arguments, token, default, outcome) ==
    LET b == bind_arguments(tool_name, arguments)
        r == make_request(tool_request(tool_name, b.kv), token, default, outcome)
    IN  IF ~b.ok
          THEN Raise(b.exc, b.msg,
                     [invoked |-> <<[tool |-> tool_name, bound |-> FALSE,
                                     result |-> NoneObj, error |-> b.msg]>>,
                      requests |-> <<>>])
        ELSE Return([content |-> <<[type |-> "text", text |-> JsonDumpsResult(r.val)]>>,
                     isError |-> ~Get(r.val, "success", TRUE)],
                    [invoked |-> <<[tool |-> tool_name, bound |-> TRUE,
                                    result |-> r.val, error |-> None]>>,
                     requests |-> <<r.request>>])

invoke_tool_RetriesOnFailure(tool_name, arguments, token, default, outcome) ==
    LET b == bind_arguments(tool_name, arguments)
        r == make_request(tool_request(tool_name, b.kv), token, default, outcome)
    IN  IF ~b.ok
          THEN Return([content |-> <<[type |-> "text", text |-> JsonDumpsError(b.msg)]>>,
                       isError |-> TRUE],
                      [invoked |-> <<[tool |-> tool_name, bound |-> FALSE,
                                      result |-> NoneObj, error |-> b.msg]>>,
                       requests |-> <<>>])
        ELSE Return([content |-> <<[type |-> "text", text |-> JsonDumpsResult(r.val)]>>,
                     isError |-> ~Get(r.val, "success", TRUE)],
                    [invoked |-> <<[tool |-> tool_name, bound |-> TRUE,
                                    result |-> r.val, error |-> None]>>,
                     requests |-> IF Get(r.val, "success", TRUE) THEN <<r.request>>
                                  ELSE <<r.request, r.request>>])

\* The body of the try of handle_call_tool: invoke the tool, wrap its result.
\* An exception of the invocation becomes an isError envelope.
invoke_tool(tool_name, arguments, token, default, outcome) ==
    LET b == bind_arguments(tool_name, arguments)
        r == make_request(tool_request(tool_name, b.kv), token, default, outcome)
    IN  IF ~b.ok
          THEN Return([content |-> <<[type |-> "text", text |-> JsonDumpsError(b.msg)]>>,
                       isError |-> TRUE],
                      [invoked |-> <<[tool |-> tool_name, bound |-> FALSE,
                                      result |-> NoneObj, error |-> b.msg]>>,
                       requests |-> <<>>])
        ELSE IF r.raised
          THEN Return([content |-> <<[type |-> "text", text |-> JsonDumpsError(r.msg)]>>,
                       isError |-> TRUE],
                      [invoked |-> <<[tool |-> tool_name, bound |-> TRUE,
                                      result |-> NoneObj, error |-> r.msg]>>,
                       requests |-> <<r.request>>])
        ELSE Return([content |-> <<[type |-> "text", text |-> JsonDumpsResult(r.val)]>>,
                     isError |-> ~Get(r.val, "success", TRUE)],
                    [invoked |-> <<[tool |-> tool_name, bound |-> TRUE,
                                    result |-> r.val, error |-> None]>>,
                     requests |-> <<r.request>>])

handle_call_tool(params, token, default, outcome) ==
    IF params.t # "object"
      THEN Raise("AttributeError", "object has no attribute 'get'", NoCalls)
    ELSE
      LET tool_name == Get(params.kv, "name", [t |-> "null"])
          arguments == Get(params.kv, "arguments", [t |-> "object", kv |-> EmptyDict])
      IN  IF tool_name.t \in {"array", "object"}
            THEN Raise("TypeError", "unhashable type", NoCalls)
          ELSE IF tool_name.t # "str" \/ tool_name.v \notin TOOLS
            THEN Raise("ValueError",
                       "Unknown tool: " \o (IF tool_name.t = "str" THEN tool_name.v
                                            ELSE None),
                       NoCalls)
          ELSE invoke_tool(tool_name.v, arguments, token, default, outcome)

RecognizedMethods ==
    {"initialize", "initialized", "tools/list", "tools/call", "resources/list",
     "prompts/list", "ping"}

RpcResult(req_id, result) == [jsonrpc |-> "2.0", id |-> req_id, result |-> result]

RpcError_WithNullResult(req_id, code, message) ==
    [jsonrpc |-> "2.0", id |-> req_id, result |-> NoneObj,
     error |-> [code |-> code, message |-> message]]

RpcError_IdNotEchoed(req_id, code, message) ==
    [jsonrpc |-> "2.0", id |-> None, error |-> [code |-> code, message |-> message]]

RpcError(req_id, code, message) ==
    [jsonrpc |-> "2.0", id |-> req_id, error |-> [code |-> code, message |-> message]]

\* process_mcp_request: the response (NoneObj for none), or the exception that
\* leaves it, and the tool and backend calls made on the way.
process_mcp_request(req, token, default, outcome) ==
    IF req.t # "object"
      THEN Raise("AttributeError", "object has no attribute 'get'", NoCalls)
    ELSE
      LET method == Get(req.kv, "method", "")
          params == Get(req.kv, "params", [t |-> "object", kv |-> EmptyDict])
          req_id == Get(req.kv, "id", None)
          call == handle_call_tool(params, token, default, outcome)
      IN  CASE method = "initialize" -> Return(RpcResult(req_id, handle_initialize), NoCalls)
            [] method = "initialized" -> Return(NoneObj, NoCalls)
            [] method = "tools/list" -> Return(RpcResult(req_id, handle_list_tools), NoCalls)
            [] method = "tools/call" ->
                 IF ~call.raised THEN Return(RpcResult(req_id, call.val), call)
                 ELSE IF call.exc = "ValueError"
                   THEN Return(RpcError(req_id, -32602, call.msg), call)
                 ELSE Return(RpcError(req_id, -32603, call.msg), call)
            [] method = "resources/list" ->
                 Return(RpcResult(req_id, handle_list_resources), NoCalls)
            [] method = "prompts/list" ->
                 Return(RpcResult(req_id, handle_list_prompts), NoCalls)
            [] method = "ping" -> Return(RpcResult(req_id, [pong |-> TRUE]), NoCalls)
            [] OTHER ->
                 Return(RpcError(req_id, -32601, "Method not found: " \o method), NoCalls)

\* ------------------------------------------------------------ the inputs
Obj(kv) == [t |-> "object", kv |-> kv]

Str(v) == [t |-> "str", v |-> v]

JsonNull == [t |-> "null"]

\* body.get("id") of a posted object.
IdOfBody(b) == Get(b.items[1].kv, "id", None)

JsonArray == [t |-> "array"]

\* params of tools/call requests: registered and unregistered names, a missing
\* name, a name that is a JSON array, arguments that bind and that do not.
CallParams ==
    {Obj([name |-> Str("get_specific_alert"),
          arguments |-> Obj([alert_id |-> "a1"])]),
     Obj([name |-> Str("get_firing_alerts"),
          arguments |-> Obj([bogus |-> "x"])]),
     Obj([name |-> Str("get_specific_alert")]),
     Obj([name |-> Str("get_firing_alerts"), arguments |-> JsonNull]),
     Obj([name |-> Str("no_such_tool"), arguments |-> Obj(EmptyDict)]),
     Obj([arguments |-> Obj(EmptyDict)]),
     Obj([name |-> JsonArray])}

\* The requests a client sends: with an id, with a null id and without one.
Requests ==
    {Obj([method |-> "initialize", id |-> "1"]),
     Obj([method |-> "initialized"]),
     Obj([method |-> "initialized", id |-> "2"]),
     Obj([method |-> "tools/list", id |-> "2"]),
     Obj([method |-> "resources/list", id |-> "1"]),
     Obj([method |-> "prompts/list", id |-> None]),
     Obj([method |-> "ping", id |-> "1"]),
     Obj([method |-> "ping"]),
     Obj([method |-> "no/such", id |-> "2"]),
     Obj([id |-> "1"]),
     Obj([method |-> "tools/call", id |-> "2"]),
     Obj([method |-> "tools/call", id |-> "1", params |-> JsonNull])}
      \cup {Obj([method |-> "tools/call", id |-> "1", params |-> p]) : p \in CallParams}

\* A posted value may also be a JSON value that is no object.
Elements == Requests \cup {Str("junk")}

\* The elements batches are built from: a result, both kinds of notification,
\* each kind of error response, a tool call and a value that is no object.
BatchElements ==
    {e \in Elements :
       \/ e.t # "object"
       \/ /\ Get(e.kv, "method", "") \in {"initialize", "initialized", "ping", "no/such"}
          /\ Get(e.kv, "id", None) \in {None, "1", "2"}
          /\ e # Obj([method |-> "ping", id |-> "1"])
       \/ /\ "params" \in DOMAIN e.kv
          /\ e.kv["params"].t = "object"
          /\ Get(e.kv["params"].kv, "name", JsonNull) \in
               {Str("get_specific_alert"), Str("no_such_tool"), JsonArray}}

Tokens == {None, "tokA"}

\* The backend outcomes the dispatcher is run against.
DispatchOutcomes == {o \in Outcomes : o.status \in {0, 200, 404}}

SeqsUpTo(S, n) == UNION {[1..k -> S] : k \in 0..n}

\* What request.json() yields: a parse failure, an array or a single value.
Bodies ==
    {[kind |-> "invalid", items |-> <<>>]}
      \cup {[kind |-> "list", items |-> b] : b \in SeqsUpTo(BatchElements, MaxBatch)}
      \cup {[kind |-> "single", items |-> <<e>>] : e \in Elements}

\* --------------------------------------------------------- POST /mcp
NoHttp == [status |-> 0, kind |-> "none", content |-> <<>>]

NoBody == [kind |-> "none", items |-> <<>>]

\* The outcomes worth distinguishing for a request: those of its backend call
\* when it makes one.
OutcomesFor(req, S) ==
    LET o0 == [kind |-> "timeout", status |-> 0, text |-> "timed out"]
    IN  IF process_mcp_request(req, None, None, o0).requests # <<>> THEN S ELSE {o0}

\* The except clauses of mcp_endpoint.
ParseErrorResponse ==
    [status |-> 400, kind |-> "object", content |-> <<RpcError(None, -32700, "Parse error")>>]

InternalErrorResponse(msg) ==
    [status |-> 500, kind |-> "object", content |-> <<RpcError(None, -32603, msg)>>]

\* mcp_endpoint up to the end of `await request.json()`.
McpReceive(token, b) ==
    /\ request_token' = token
    /\ body' = b
    /\ loop_i' = 1
    /\ responses' = <<>>
    /\ IF b.kind = "invalid"
         THEN mcp_pc' = "done" /\ http' = ParseErrorResponse
       ELSE IF b.kind = "list" /\ b.items = <<>>
         THEN mcp_pc' = "done"
              /\ http' = [status |-> 200, kind |-> "array", content |-> <<>>]
       ELSE mcp_pc' = (IF b.kind = "list" THEN "loop" ELSE "single")
            /\ http' = http
    /\ UNCHANGED <<settings_bearer_token, ext_vars, dispatched, log_vars, gw_vars, sse_vars>>

Entry(req, outcome, p) ==
    [req |-> req, outcome |-> outcome, raised |-> p.raised,
     resp |-> IF p.raised THEN NoneObj ELSE p.val,
     invoked |-> p.invoked, requests |-> p.requests]

Record(req, outcome, p) ==
    /\ dispatched' = Append(dispatched, Entry(req, outcome, p))
    /\ tool_calls' = tool_calls \o p.invoked
    /\ backend_calls' = backend_calls \o p.requests

\* One iteration of `for req in body`, and the return that follows the last.
McpBatchStep(outcome) ==
    /\ mcp_pc = "loop"
    /\ LET req == body.items[loop_i]
           p == process_mcp_request(req, request_token, settings_bearer_token, outcome)
           resps == IF Truthy(p.val) THEN Append(responses, p.val) ELSE responses
       IN  /\ outcome \in OutcomesFor(req, DispatchOutcomes)
           /\ Record(req, outcome, p)
           /\ IF p.raised
                THEN /\ mcp_pc' = "done"
                     /\ http' = InternalErrorResponse(p.msg)
                     /\ UNCHANGED <<responses, loop_i>>
              ELSE /\ responses' = resps
                   /\ IF loop_i = Len(body.items)
                        THEN /\ mcp_pc' = "done"
                             /\ http' = [status |-> 200, kind |-> "array",
                                         content |-> resps]
                             /\ loop_i' = loop_i
                        ELSE /\ mcp_pc' = "loop"
                             /\ http' = http
                             /\ loop_i' = loop_i + 1
    /\ UNCHANGED <<settings_bearer_token, ext_vars, request_token, body, gw_vars, sse_vars>>

\* The single-request branch of mcp_endpoint.
McpSingle(outcome) ==
    /\ mcp_pc = "single"
    /\ LET req == body.items[1]
           p == process_mcp_request(req, request_token, settings_bearer_token, outcome)
       IN  /\ outcome \in OutcomesFor(req, DispatchOutcomes)
           /\ Record(req, outcome, p)
           /\ http' = IF p.raised THEN InternalErrorResponse(p.msg)
                      ELSE IF Truthy(p.val)
                        THEN [status |-> 200, kind |-> "object", content |-> <<p.val>>]
                      ELSE [status |-> 204, kind |-> "empty", content |-> <<>>]
    /\ mcp_pc' = "done"
    /\ UNCHANGED <<settings_bearer_token, ext_vars, request_token, body, loop_i, responses,
                   gw_vars, sse_vars>>

\* The handler has returned; its locals and its context are gone.
McpClose ==
    /\ mcp_pc = "done"
    /\ mcp_pc' = "idle"
    /\ request_token' = None
    /\ body' = NoBody
    /\ loop_i' = 1
    /\ responses' = <<>>
    /\ http' = NoHttp
    /\ dispatched' = <<>>
    /\ tool_calls' = <<>>
    /\ backend_calls' = <<>>
    /\ UNCHANGED <<settings_bearer_token, ext_vars, gw_vars, sse_vars>>

\* ------------------------------------------------------ SessionManager
MaxChannels == 1

MaxPings == 2

MaxClock == 1

Channels == 1..MaxChannels

\* The ids a caller may name: those uuid4 can issue and one it never issues.
SessionIds == {"sid" \o ToString(n) : n \in 1..(MaxChannels + 1)}

\* str(uuid.uuid4()): an id that was never produced before.
uuid4(used) == "sid" \o ToString(Cardinality(used) + 1)

create_session_ResetsTable(ss, session_id, token, t) ==
    [k \in {session_id} |->
       [created_at |-> t, last_activity |-> t, initialized |-> FALSE,
        client_info |-> None, token |-> token]]

create_session(ss, session_id, token, t) ==
    [k \in DOMAIN ss \cup {session_id} |->
       IF k = session_id
         THEN [created_at |-> t, last_activity |-> t, initialized |-> FALSE,
               client_info |-> None, token |-> token]
         ELSE ss[k]]

get_session(ss, session_id) ==
    IF session_id \in DOMAIN ss THEN ss[session_id] ELSE NoneObj

update_session_KeepsGivenLastActivity(ss, session_id, kwargs, t) ==
    IF session_id \in DOMAIN ss
      THEN [ss EXCEPT ![session_id] =
              [k \in DOMAIN ss[session_id] \cup DOMAIN kwargs \cup {"last_activity"} |->
                 IF k \in DOMAIN kwargs THEN kwargs[k]
                 ELSE IF k = "last_activity" THEN t
                 ELSE ss[session_id][k]]]
      ELSE ss

update_session_Upsert(ss, session_id, kwargs, t) ==
    [k \in DOMAIN ss \cup {session_id} |->
       IF k = session_id
         THEN [f \in DOMAIN kwargs \cup {"last_activity"} |->
                 IF f = "last_activity" THEN t ELSE kwargs[f]]
         ELSE ss[k]]

update_session(ss, session_id, kwargs, t) ==
    IF session_id \in DOMAIN ss
      THEN [ss EXCEPT ![session_id] =
              [k \in DOMAIN ss[session_id] \cup DOMAIN kwargs \cup {"last_activity"} |->
                 IF k = "last_activity" THEN t
                 ELSE IF k \in DOMAIN kwargs THEN kwargs[k]
                 ELSE ss[session_id][k]]]
      ELSE ss

delete_session_ClearsOnMiss(ss, session_id) ==
    IF session_id \in DOMAIN ss
      THEN [k \in DOMAIN ss \ {session_id} |-> ss[k]]
      ELSE <<>>

delete_session(ss, session_id) ==
    IF session_id \in DOMAIN ss
      THEN [k \in DOMAIN ss \ {session_id} |-> ss[k]]
      ELSE ss

\* ----------------------------------------------------- GET /mcp/sse
\* json.dumps(value): the JSON text of value.
Dumps(value) == [json |-> value]

\* The literal "{}".
EmptyObjectText == Dumps(EmptyDict)

ClosedChannel == [pc |-> "closed", sid |-> None, connected |-> FALSE, events |-> <<>>]

Pings(c) == Len(SelectSeq(idle[c].events, LAMBDA e : e.event = "ping"))

\* mcp_sse_endpoint up to the return of the EventSourceResponse.
SseOpen(c, token) ==
    /\ idle[c].pc = "closed"
    /\ LET session_id == uuid4(issued)
       IN  /\ sessions' = create_session(sessions, session_id, token, now)
           /\ issued' = issued \cup {session_id}
           /\ idle' = [idle EXCEPT ![c] = [pc |-> "session", sid |-> session_id,
                                           connected |-> TRUE, events |-> <<>>]]
    /\ UNCHANGED <<settings_bearer_token, ext_vars, mcp_vars, log_vars, gw_vars, now, sreq>>

Emit(c, e, pc) ==
    idle' = [idle EXCEPT ![c].events = Append(@, e), ![c].pc = pc]

SseYieldSession_PingFirst(c) ==
    /\ idle[c].pc = "session"
    /\ Emit(c, [event |-> "ping", data |-> Dumps([timestamp |-> now])], "server_info")
    /\ UNCHANGED <<settings_bearer_token, ext_vars, mcp_vars, log_vars, gw_vars, sessions,
                   issued, now, sreq>>

\* event_generator: the first yield.
SseYieldSession(c) ==
    /\ idle[c].pc = "session"
    /\ Emit(c, [event |-> "session", data |-> Dumps([session_id |-> idle[c].sid])],
            "server_info")
    /\ UNCHANGED <<settings_bearer_token, ext_vars, mcp_vars, log_vars, gw_vars, sessions,
                   issued, now, sreq>>

\* event_generator: the second yield.
SseYieldServerInfo(c) ==
    /\ idle[c].pc = "server_info"
    /\ Emit(c, [event |-> "server_info",
                data |-> Dumps([name |-> ServerName, version |-> ServerVersion,
                                protocolVersion |-> "2024-11-05"])],
            "loop")
    /\ UNCHANGED <<settings_bearer_token, ext_vars, mcp_vars, log_vars, gw_vars, sessions,
                   issued, now, sreq>>

SseLoop_BreakWithoutDelete(c) ==
    /\ idle[c].pc = "loop"
    /\ IF ~idle[c].connected
         THEN /\ sessions' = sessions
              /\ idle' = [idle EXCEPT ![c].pc = "done"]
         ELSE /\ Pings(c) < MaxPings
              /\ Emit(c, [event |-> "ping", data |-> Dumps([timestamp |-> now])], "sleep")
              /\ sessions' = sessions
    /\ UNCHANGED <<settings_bearer_token, ext_vars, mcp_vars, log_vars, gw_vars, issued, now, sreq>>

\* event_generator: one pass of `while True` up to the sleep.
SseLoop(c) ==
    /\ idle[c].pc = "loop"
    /\ IF ~idle[c].connected
         THEN /\ sessions' = delete_session(sessions, idle[c].sid)
              /\ idle' = [idle EXCEPT ![c].pc = "done"]
         ELSE /\ Pings(c) < MaxPings
              /\ Emit(c, [event |-> "ping", data |-> Dumps([timestamp |-> now])], "sleep")
              /\ sessions' = sessions
    /\ UNCHANGED <<settings_bearer_token, ext_vars, mcp_vars, log_vars, gw_vars, issued, now, sreq>>

\* event_generator: asyncio.sleep(30) is over.
SseWake(c) ==
    /\ idle[c].pc = "sleep"
    /\ idle' = [idle EXCEPT ![c].pc = "loop"]
    /\ UNCHANGED <<settings_bearer_token, ext_vars, mcp_vars, log_vars, gw_vars, sessions,
                   issued, now, sreq>>

\* The peer of an idle channel goes away.
PeerDisconnect(c) ==
    /\ idle[c].pc \notin {"closed", "done"}
    /\ idle[c].connected
    /\ idle' = [idle EXCEPT ![c].connected = FALSE]
    /\ UNCHANGED <<settings_bearer_token, ext_vars, mcp_vars, log_vars, gw_vars, sessions,
                   issued, now, sreq>>

Tick ==
    /\ now < MaxClock
    /\ now' = now + 1
    /\ UNCHANGED <<settings_bearer_token, ext_vars, mcp_vars, log_vars, gw_vars, sessions,
                   issued, idle, sreq>>

\* ------------------------------------------- POST /mcp/sse/{session_id}
\* The handler and its stream; bearer is the token of the inbound request and
\* at the time the request came in.
NoStream ==
    [pc |-> "idle", sid |-> None, token |-> None, body |-> NoBody, status |-> 0,
     events |-> <<>>, entry |-> NoneObj, bearer |-> None, at |-> 0]

\* The bodies posted on a per-request channel.
SseBodies ==
    {[kind |-> "invalid", items |-> <<>>],
     [kind |-> "list", items |-> <<Obj([method |-> "ping", id |-> "1"])>>]}
      \cup {[kind |-> "single", items |-> <<e>>] :
              e \in {Obj([method |-> "initialized"]),
                     Obj([method |-> "ping", id |-> "1"]),
                     Obj([method |-> "no/such", id |-> "2"]),
                     Obj([method |-> "tools/call", id |-> "1",
                          params |-> Obj([name |-> Str("get_specific_alert"),
                                          arguments |-> Obj([alert_id |-> "a1"])])]),
                     Str("junk")}}

SseOutcomes == {o \in Outcomes : o.status \in {0, 200, 404} /\ o.text # "not json"}

SseReqReceive_NoSessionCheck(session_id, token, b) ==
    /\ sreq.pc = "idle"
    /\ sreq' =
         IF b.kind = "invalid"
           THEN [NoStream EXCEPT !.pc = "done", !.sid = session_id, !.status = 500,
                                 !.token = token, !.bearer = token, !.at = now]
           ELSE [NoStream EXCEPT !.pc = "progress", !.sid = session_id, !.status = 200,
                                 !.body = b, !.token = token, !.bearer = token,
                                 !.at = now]
    /\ UNCHANGED <<settings_bearer_token, ext_vars, mcp_vars, log_vars, gw_vars, sessions,
                   issued, now, idle>>

SseReqReceive_SessionTokenFirst(session_id, token, b) ==
    /\ sreq.pc = "idle"
    /\ LET session == get_session(sessions, session_id)
       IN  sreq' =
             IF ~Truthy(session)
               THEN [NoStream EXCEPT !.pc = "done", !.sid = session_id, !.status = 404,
                       !.bearer = token, !.at = now]
             ELSE IF b.kind = "invalid"
               THEN [NoStream EXCEPT !.pc = "done", !.sid = session_id, !.status = 500,
                       !.bearer = token, !.at = now,
                       !.token = IF session.token # None /\ session.token # ""
                                   THEN session.token ELSE token]
             ELSE [NoStream EXCEPT !.pc = "progress", !.sid = session_id, !.status = 200,
                     !.body = b, !.bearer = token, !.at = now,
                     !.token = IF session.token # None /\ session.token # ""
                                 THEN session.token ELSE token]
    /\ UNCHANGED <<settings_bearer_token, ext_vars, mcp_vars, log_vars, gw_vars, sessions,
                   issued, now, idle>>

\* mcp_sse_request up to the return of the EventSourceResponse: the session
\* check, the token, the body.
SseReqReceive(session_id, token, b) ==
    /\ sreq.pc = "idle"
    /\ LET session == get_session(sessions, session_id)
       IN  sreq' =
             IF ~Truthy(session)
               THEN [NoStream EXCEPT !.pc = "done", !.sid = session_id, !.status = 404,
                       !.bearer = token, !.at = now]
             ELSE IF b.kind = "invalid"
               THEN [NoStream EXCEPT !.pc = "done", !.sid = session_id, !.status = 500,
                       !.bearer = token, !.at = now,
                       !.token = IF token # None /\ token # "" THEN token
                                 ELSE session.token]
             ELSE [NoStream EXCEPT !.pc = "progress", !.sid = session_id, !.status = 200,
                     !.body = b, !.bearer = token, !.at = now,
                     !.token = IF token # None /\ token # "" THEN token
                               ELSE session.token]
    /\ UNCHANGED <<settings_bearer_token, ext_vars, mcp_vars, log_vars, gw_vars, sessions,
                   issued, now, idle>>

\* stream_response: the first yield; body.get fails when body is no object.
SseReqProgress ==
    /\ sreq.pc = "progress"
    /\ sreq' =
         IF sreq.body.kind = "list" \/ sreq.body.items[1].t # "object"
           THEN [sreq EXCEPT !.pc = "aborted"]
           ELSE [sreq EXCEPT !.pc = "dispatch",
                             !.events = Append(@, [event |-> "progress",
                                 data |-> Dumps([status |-> "processing",
                                                 request_id |-> IdOfBody(sreq.body)])])]
    /\ UNCHANGED <<settings_bearer_token, ext_vars, mcp_vars, log_vars, gw_vars, sessions,
                   issued, now, idle>>

SseReqDispatch_RechecksSession(outcome) ==
    /\ sreq.pc = "dispatch"
    /\ LET req == sreq.body.items[1]
           p == process_mcp_request(req, sreq.token, settings_bearer_token, outcome)
       IN  /\ outcome \in OutcomesFor(req, SseOutcomes)
           /\ sreq' = [sreq EXCEPT !.pc = IF p.raised \/ sreq.sid \notin DOMAIN sessions
                                            THEN "aborted" ELSE "result",
                                   !.entry = Entry(req, outcome, p)]
           /\ tool_calls' = tool_calls \o p.invoked
           /\ backend_calls' = backend_calls \o p.requests
    /\ UNCHANGED <<settings_bearer_token, ext_vars, mcp_vars, gw_vars, sessions, issued, now, idle>>

\* stream_response: response = await process_mcp_request(body)
SseReqDispatch(outcome) ==
    /\ sreq.pc = "dispatch"
    /\ LET req == sreq.body.items[1]
           p == process_mcp_request(req, sreq.token, settings_bearer_token, outcome)
       IN  /\ outcome \in OutcomesFor(req, SseOutcomes)
           /\ sreq' = [sreq EXCEPT !.pc = IF p.raised THEN "aborted" ELSE "result",
                                   !.entry = Entry(req, outcome, p)]
           /\ tool_calls' = tool_calls \o p.invoked
           /\ backend_calls' = backend_calls \o p.requests
    /\ UNCHANGED <<settings_bearer_token, ext_vars, mcp_vars, gw_vars, sessions, issued, now, idle>>

SseReqResult_EmptyObject ==
    /\ sreq.pc = "result"
    /\ sreq' = [sreq EXCEPT !.pc = "finish",
                            !.events = Append(@, [event |-> "result",
                                                  data |-> EmptyObjectText])]
    /\ UNCHANGED <<settings_bearer_token, ext_vars, mcp_vars, log_vars, gw_vars, sessions,
                   issued, now, idle>>

\* stream_response: the second yield.
SseReqResult ==
    /\ sreq.pc = "result"
    /\ sreq' = [sreq EXCEPT !.pc = "finish",
                            !.events = Append(@, [event |-> "result",
                                data |-> IF Truthy(sreq.entry.resp)
                                           THEN Dumps(sreq.entry.resp)
                                           ELSE EmptyObjectText])]
    /\ UNCHANGED <<settings_bearer_token, ext_vars, mcp_vars, log_vars, gw_vars, sessions,
                   issued, now, idle>>

\* stream_response: the third yield.
SseReqDone ==
    /\ sreq.pc = "finish"
    /\ sreq' = [sreq EXCEPT !.pc = "done",
                            !.events = Append(@, [event |-> "done",
                                data |-> Dumps([request_id |-> IdOfBody(sreq.body)])])]
    /\ UNCHANGED <<settings_bearer_token, ext_vars, mcp_vars, log_vars, gw_vars, sessions,
                   issued, now, idle>>

\* The response is over; the handler's locals are gone.
SseReqClose ==
    /\ sreq.pc \in {"done", "aborted"}
    /\ sreq' = NoStream
    /\ tool_calls' = <<>>
    /\ backend_calls' = <<>>
    /\ UNCHANGED <<settings_bearer_token, ext_vars, mcp_vars, gw_vars, sessions, issued, now, idle>>

SseInitial ==
    /\ sessions = <<>>
    /\ issued = {}
    /\ now = 0
    /\ idle = [c \in Channels |-> ClosedChannel]
    /\ sreq = NoStream

\* ------------------------------------- concurrent POST /mcp handlers
MaxTasks == 2

\* The asyncio tasks serving inbound requests, one request each.
Tasks == 1..MaxTasks

TaskTokens == {None, "tokA", "tokB"}

TaskRequests ==
    {Obj([method |-> "ping", id |-> "1"]),
     Obj([method |-> "tools/call", id |-> "1",
          params |-> Obj([name |-> Str("get_firing_alerts")])]),
     Obj([method |-> "tools/call", id |-> "2",
          params |-> Obj([name |-> Str("get_specific_alert"),
                          arguments |-> Obj([alert_id |-> "a1"])])])}

TaskOutcomes ==
    {[kind |-> "http", status |-> 200, text |-> JsonBody],
     [kind |-> "timeout", status |-> 0, text |-> "timed out"]}

\* request_token.set(token): ContextVar.set changes the variable in the
\* context of the running task and in no other.
set_request_token_SharedGlobal(ctx, task, token) ==
    [t \in DOMAIN ctx |-> token]

set_request_token(ctx, task, token) ==
    [ctx EXCEPT ![task] = token]

\* request_token.get() in the running task.
request_token_get(ctx, task) == ctx[task]

NoTask ==
    [pc |-> "idle", token |-> None, req |-> NoneObj, outcome |-> NoneObj,
     requests |-> <<>>, http |-> NoHttp]

\* mcp_endpoint in task t up to the suspension in `await request.json()`.
TaskReceive(t, token, req) ==
    /\ tasks[t].pc = "idle"
    /\ contexts' = set_request_token(contexts, t, token)
    /\ tasks' = [tasks EXCEPT ![t] = [NoTask EXCEPT !.pc = "json", !.token = token,
                                                    !.req = req]]
    /\ UNCHANGED <<settings_bearer_token, api_vars, mcp_vars, log_vars, gw_vars, sse_vars,
                   sm, cli_in, cli_out>>

\* Task t resumes with the body and runs the dispatcher up to the suspension
\* in `await client.request(...)`, or to its end when no tool is invoked.
TaskDispatch(t, outcome) ==
    /\ tasks[t].pc = "json"
    /\ LET p == process_mcp_request(tasks[t].req, request_token_get(contexts, t),
                                    settings_bearer_token, outcome)
       IN  /\ outcome \in OutcomesFor(tasks[t].req, TaskOutcomes)
           /\ tasks' = [tasks EXCEPT ![t].pc = IF p.requests # <<>> THEN "backend"
                                               ELSE "done",
                                     ![t].outcome = outcome,
                                     ![t].requests = p.requests,
                                     ![t].http = IF p.requests # <<>> THEN NoHttp
                                                 ELSE [status |-> 200, kind |-> "object",
                                                       content |-> <<p.val>>]]
    /\ UNCHANGED <<settings_bearer_token, api_vars, mcp_vars, log_vars, gw_vars, sse_vars,
                   contexts, sm, cli_in, cli_out>>

\* The backend has answered task t: the rest of the handler.
TaskReturn(t) ==
    /\ tasks[t].pc = "backend"
    /\ LET p == process_mcp_request(tasks[t].req, request_token_get(contexts, t),
                                    settings_bearer_token, tasks[t].outcome)
       IN  tasks' = [tasks EXCEPT ![t].pc = "done",
                                  ![t].http = [status |-> 200, kind |-> "object",
                                               content |-> <<p.val>>]]
    /\ UNCHANGED <<settings_bearer_token, api_vars, mcp_vars, log_vars, gw_vars, sse_vars,
                   contexts, sm, cli_in, cli_out>>

\* Task t is over; the next request of this slot runs in a new task, whose
\* context is a copy of the server's, where request_token has its default.
TaskClose(t) ==
    /\ tasks[t].pc = "done"
    /\ tasks' = [tasks EXCEPT ![t] = NoTask]
    /\ contexts' = [contexts EXCEPT ![t] = None]
    /\ UNCHANGED <<settings_bearer_token, api_vars, mcp_vars, log_vars, gw_vars, sse_vars,
                   sm, cli_in, cli_out>>

\* ------------------------------- the session manager, called directly
MaxSessions == 2

\* The ids a caller may name: those uuid4 can issue and one it never issues.
SmIds == {"sid" \o ToString(n) : n \in 1..(MaxSessions + 1)}

\* The keyword arguments of update_session.
SmUpdates == {[initialized |-> TRUE], [token |-> "tokB"]}

\* History of the calls: the last one and whether it found its id in the
\* table, the issued ids deleted so far, the token each id was last given.
SmCalled(op, session_id, deleted, token) ==
    sm' = [op |-> op, id |-> session_id, hit |-> session_id \in DOMAIN sessions,
           deleted |-> deleted, token |-> token]

\* session_manager.create_session(token)
SmCreate(token) ==
    /\ Cardinality(issued) < MaxSessions
    /\ LET session_id == uuid4(issued)
       IN  /\ sessions' = create_session(sessions, session_id, token, now)
           /\ issued' = issued \cup {session_id}
           /\ SmCalled("create", session_id, sm.deleted,
                       [k \in DOMAIN sm.token \cup {session_id} |->
                          IF k = session_id THEN token ELSE sm.token[k]])
    /\ UNCHANGED <<settings_bearer_token, api_vars, mcp_vars, log_vars, gw_vars, now, idle, sreq,
                   contexts, tasks, cli_in, cli_out>>

\* session_manager.update_session(session_id, **kwargs)
SmUpdate(session_id, kwargs) ==
    /\ sessions' = update_session(sessions, session_id, kwargs, now)
    /\ SmCalled("update", session_id, sm.deleted,
                IF session_id \in issued \ sm.deleted /\ "token" \in DOMAIN kwargs
                  THEN [sm.token EXCEPT ![session_id] = kwargs["token"]]
                  ELSE sm.token)
    /\ UNCHANGED <<settings_bearer_token, api_vars, mcp_vars, log_vars, gw_vars, issued, now, idle,
                   sreq, contexts, tasks, cli_in, cli_out>>

\* session_manager.delete_session(session_id)
SmDelete(session_id) ==
    /\ sessions' = delete_session(sessions, session_id)
    /\ SmCalled("delete", session_id, sm.deleted \cup ({session_id} \cap issued),
                sm.token)
    /\ UNCHANGED <<settings_bearer_token, api_vars, mcp_vars, log_vars, gw_vars, issued, now, idle,
                   sreq, contexts, tasks, cli_in, cli_out>>

\* A per-request call made to look a session up.
PingBody == [kind |-> "single", items |-> <<Obj([method |-> "ping", id |-> "1"])>>]

NoSm == [op |-> "none", id |-> None, hit |-> FALSE, deleted |-> {}, token |-> <<>>]

ExtInitial ==
    /\ contexts = [t \in Tasks |-> None]
    /\ tasks = [t \in Tasks |-> NoTask]
    /\ sm = NoSm
    /\ cli_out = NoneObj
    /\ api_out = NoneObj

\* ------------------------- clairai_toolcalling_mechanisms.py: call_mcp_tool
MaxLines == 2

\* "status": None in a result of call_mcp_tool.
NoneStatus == 0

\* The two halves of a JSON document sent over two lines.
JsonHalves == <<"{\"x\":", "1}">>

\* A line of a response body: its SSE field name ("" when the line has none)
\* and the rest of the line, stripped.
BodyLines ==
    {[field |-> "", text |-> ""],
     [field |-> "", text |-> JsonBody],
     [field |-> "data", text |-> JsonBody],
     [field |-> "data", text |-> JsonHalves[1]],
     [field |-> "data", text |-> JsonHalves[2]],
     [field |-> "event", text |-> "message"]}

\* What one requests.post can meet: an exception, or a response with a status
\* and a body whose transfer may break after its last line.
Responses ==
    {[kind |-> "timeout", status |-> 0, lines |-> <<>>, broken |-> FALSE,
      text |-> "timed out"],
     [kind |-> "error", status |-> 0, lines |-> <<>>, broken |-> FALSE,
      text |-> "connection refused"]}
      \cup [kind : {"http"}, status : {200, 404}, lines : SeqsUpTo(BodyLines, MaxLines),
            broken : BOOLEAN, text : {""}]

\* An endpoint: what it answers to the first POST and to the second, the same
\* or one of a few others.
Endpoints ==
    {e \in [first : Responses, second : Responses] :
       \/ e.second = e.first
       \/ e.second.kind # "http"
       \/ Len(e.second.lines) = 1 /\ e.second.lines[1].text = JsonBody}

\* "\n".join(chunks)
Join(chunks) ==
    LET RECURSIVE join(_)
        join(i) == IF i > Len(chunks) THEN ""
                   ELSE IF i = Len(chunks) THEN chunks[i]
                   ELSE chunks[i] \o "\n" \o join(i + 1)
    IN  join(1)

\* json.loads(text) succeeds.
IsJsonDoc(text) == text \in {JsonBody, JsonHalves[1] \o "\n" \o JsonHalves[2]}

\* The text of a line as it is on the wire.
RawLine(l) == IF l.field = "" THEN l.text ELSE l.field \o ": " \o l.text

\* The `data` of a result: a parsed document, a string, or None.
Parsed(text) == [t |-> "json", v |-> JsonLoads(text)]

Text(text) == [t |-> "text", v |-> text]

NoneData == [t |-> "none"]

ClientResult(success, status, data, error) ==
    [success |-> success, status |-> status, data |-> data, error |-> error]

read_stream_ParsesAtEndOnly(resp) ==
    LET RECURSIVE loop(_, _)
        loop(i, data_chunks) ==
          IF i > Len(resp.lines)
            THEN IF resp.broken
                   THEN [fell |-> TRUE]
                 ELSE IF data_chunks # <<>>
                   THEN [fell |-> FALSE,
                         val |-> ClientResult(TRUE, resp.status,
                                   IF IsJsonDoc(Join(data_chunks))
                                     THEN Parsed(Join(data_chunks))
                                     ELSE Text(Join(data_chunks)),
                                   None)]
                 ELSE [fell |-> FALSE,
                       val |-> ClientResult(FALSE, resp.status, NoneData,
                                            "Empty SSE stream")]
          ELSE IF RawLine(resp.lines[i]) = "" THEN loop(i + 1, data_chunks)
          ELSE IF resp.lines[i].field = "data"
            THEN loop(i + 1, Append(data_chunks, resp.lines[i].text))
          ELSE loop(i + 1, data_chunks)
    IN  loop(1, <<>>)

\* Lines 52-82: the loop over resp.iter_lines and what follows it.  `fell`
\* tells that the except clause was taken and control falls to the fallback.
read_stream(resp) ==
    LET RECURSIVE loop(_, _)
        loop(i, data_chunks) ==
          IF i > Len(resp.lines)
            THEN IF resp.broken
                   THEN [fell |-> TRUE]
                 ELSE IF data_chunks # <<>>
                   THEN [fell |-> FALSE,
                         val |-> ClientResult(TRUE, resp.status,
                                   IF IsJsonDoc(Join(data_chunks))
                                     THEN Parsed(Join(data_chunks))
                                     ELSE Text(Join(data_chunks)),
                                   None)]
                 ELSE [fell |-> FALSE,
                       val |-> ClientResult(FALSE, resp.status, NoneData,
                                            "Empty SSE stream")]
          ELSE IF RawLine(resp.lines[i]) = "" THEN loop(i + 1, data_chunks)
          ELSE IF resp.lines[i].field = "data"
            THEN IF IsJsonDoc(resp.lines[i].text)
                   THEN [fell |-> FALSE,
                         val |-> ClientResult(TRUE, resp.status,
                                              Parsed(resp.lines[i].text), None)]
                   ELSE loop(i + 1, Append(data_chunks, resp.lines[i].text))
          ELSE loop(i + 1, data_chunks)
    IN  loop(1, <<>>)

\* Lines 87-101: the plain POST and the mapping of its outcome.
fallback_post(resp) ==
    IF resp.kind # "http" THEN ClientResult(FALSE, NoneStatus, NoneData, resp.text)
    ELSE IF resp.broken
      THEN ClientResult(FALSE, NoneStatus, NoneData, "Connection broken")
    ELSE
      LET content == Join([i \in 1..Len(resp.lines) |-> RawLine(resp.lines[i])])
          data == IF IsJsonDoc(content) THEN Parsed(content) ELSE Text(content)
      IN  IF 200 <= resp.status /\ resp.status < 300
            THEN ClientResult(TRUE, resp.status, data, None)
            ELSE ClientResult(FALSE, resp.status, data,
                              "HTTP " \o ToString(resp.status))

\* call_mcp_tool against an endpoint: the result it returns and the POSTs it
\* issued, in order.
call_mcp_tool(endpoint, try_stream) ==
    LET streamed == IF endpoint.first.kind = "http" /\ endpoint.first.status = 200
                      THEN read_stream(endpoint.first)
                      ELSE [fell |-> TRUE]
    IN  IF ~try_stream
          THEN [raised |-> FALSE, posts |-> <<"plain">>,
                val |-> fallback_post(endpoint.first)]
        ELSE IF streamed.fell
          THEN [raised |-> FALSE, posts |-> <<"stream", "plain">>,
                val |-> fallback_post(endpoint.second)]
        ELSE [raised |-> FALSE, posts |-> <<"stream">>, val |-> streamed.val]

CliCall ==
    /\ cli_in # NoneObj
    /\ cli_out = NoneObj
    /\ cli_out' = call_mcp_tool(cli_in.endpoint, cli_in.try_stream)
    /\ UNCHANGED <<settings_bearer_token, api_vars, mcp_vars, log_vars, gw_vars, sse_vars,
                   contexts, tasks, sm, cli_in>>

\* ------------------------------------------- POST /api/tools/{tool_name}
\* What request.json() yields there, with `{}` for a body that does not parse.
ApiBodies ==
    {[kind |-> "invalid", items |-> <<>>],
     [kind |-> "list", items |-> <<Obj([alert_id |-> "a1"])>>]}
      \cup {[kind |-> "single", items |-> <<e>>] :
              e \in {Obj(EmptyDict), Obj([alert_id |-> "a1"]), Obj([bogus |-> "x"]),
                     Str("junk")}}

\* call_tool_api: the HTTP answer, the tool invoked and the backend request
\* made.  `raised` tells that an exception left the handler (answered 500).
call_tool_api(tool_name, token, b, default, outcome) ==
    IF tool_name \notin TOOLS
      THEN [status |-> 404, raised |-> FALSE, content |-> NoneObj,
            invoked |-> <<>>, requests |-> <<>>]
    ELSE
      LET arguments == IF b.kind = "invalid" THEN Obj(EmptyDict)
                       ELSE IF b.kind = "list" THEN JsonArray
                       ELSE b.items[1]
          bound == bind_arguments(tool_name, arguments)
          r == make_request(tool_request(tool_name, bound.kv), token, default, outcome)
      IN  IF ~bound.ok
            THEN [status |-> 500, raised |-> TRUE, content |-> NoneObj,
                  invoked |-> <<[tool |-> tool_name, bound |-> FALSE,
                                 result |-> NoneObj, error |-> bound.msg]>>,
                  requests |-> <<>>]
            ELSE [status |-> 200, raised |-> FALSE, content |-> r.val,
                  invoked |-> <<[tool |-> tool_name, bound |-> TRUE,
                                 result |-> r.val, error |-> None]>>,
                  requests |-> <<r.request>>]

ApiCall ==
    /\ api_in # NoneObj
    /\ api_out = NoneObj
    /\ api_out' = call_tool_api(api_in.tool_name, api_in.token, api_in.body,
                                settings_bearer_token, api_in.outcome)
    /\ UNCHANGED <<settings_bearer_token, mcp_vars, log_vars, gw_vars, sse_vars,
                   contexts, tasks, sm, cli_in, cli_out, api_in>>

McpIdle ==
    /\ mcp_pc = "idle"
    /\ request_token = None
    /\ body = NoBody
    /\ loop_i = 1
    /\ responses = <<>>
    /\ http = NoHttp
    /\ dispatched = <<>>
    /\ tool_calls = <<>>
    /\ backend_calls = <<>>

Init ==
    /\ settings_bearer_token = None
    /\ McpIdle
    /\ gw_in = NoneObj
    /\ gw_out = NoneObj
    /\ SseInitial
    /\ ExtInitial
    /\ api_in = NoneObj
    /\ cli_in = NoneObj

Next ==
    \/ mcp_pc = "idle" /\ \E token \in Tokens, b \in Bodies : McpReceive(token, b)
    \/ mcp_pc = "loop" /\ \E o \in DispatchOutcomes : McpBatchStep(o)
    \/ mcp_pc = "single" /\ \E o \in DispatchOutcomes : McpSingle(o)
    \/ McpClose

Spec == Init /\ [][Next]_vars

\* ------------------------------------------- make_request on its own
GatewayCalls ==
    {tool_request("get_firing_alerts", EmptyDict),
     tool_request("get_specific_alert", [alert_id |-> "a1"]),
     tool_request("update_alert", [alert_id |-> "a1", title |-> "t"])}

GatewayInputs ==
    [call : GatewayCalls, token : Tokens, outcome : Outcomes]

GwCall ==
    /\ gw_in # NoneObj
    /\ gw_out = NoneObj
    /\ gw_out' = make_request(gw_in.call, gw_in.token, settings_bearer_token,
                              gw_in.outcome)
    /\ UNCHANGED <<settings_bearer_token, ext_vars, mcp_vars, log_vars, gw_in, sse_vars>>

InitGateway ==
    /\ settings_bearer_token \in {None, "cfgtok"}
    /\ McpIdle
    /\ gw_in \in GatewayInputs
    /\ gw_out = NoneObj
    /\ SseInitial
    /\ ExtInitial
    /\ api_in = NoneObj
    /\ cli_in = NoneObj

NextGateway == GwCall

SpecGateway == InitGateway /\ [][NextGateway]_vars

\* ------------------------------------------- the streaming channels
NextSse ==
    \/ \E c \in Channels, token \in Tokens : SseOpen(c, token)
    \/ \E c \in Channels : SseYieldSession(c)
    \/ \E c \in Channels : SseYieldServerInfo(c)
    \/ \E c \in Channels : SseLoop(c)
    \/ \E c \in Channels : SseWake(c)
    \/ \E c \in Channels : PeerDisconnect(c)
    \/ Tick
    \/ sreq.pc = "idle" /\ \E session_id \in SessionIds, token \in Tokens, b \in SseBodies :
                             SseReqReceive(session_id, token, b)
    \/ SseReqProgress
    \/ sreq.pc = "dispatch" /\ \E o \in SseOutcomes : SseReqDispatch(o)
    \/ SseReqResult
    \/ SseReqDone
    \/ SseReqClose

SpecSse == Init /\ [][NextSse]_vars

\* One idle channel and the per-request calls made on its session.
NextOrphan ==
    \/ \E token \in Tokens : SseOpen(1, token)
    \/ SseYieldSession(1)
    \/ SseYieldServerInfo(1)
    \/ SseLoop(1)
    \/ SseWake(1)
    \/ PeerDisconnect(1)
    \/ sreq.pc = "idle" /\ \E session_id \in SessionIds, token \in Tokens, b \in SseBodies :
                             SseReqReceive(session_id, token, b)
    \/ SseReqProgress
    \/ sreq.pc = "dispatch" /\ \E o \in SseOutcomes : SseReqDispatch(o)
    \/ SseReqResult
    \/ SseReqDone
    \/ SseReqClose

SpecOrphan == Init /\ [][NextOrphan]_vars

\* ------------------------------------------- the idle channels alone
NextIdle ==
    \/ \E c \in Channels, token \in Tokens : SseOpen(c, token)
    \/ \E c \in Channels : SseYieldSession(c)
    \/ \E c \in Channels : SseYieldServerInfo(c)
    \/ \E c \in Channels : SseLoop(c)
    \/ \E c \in Channels : SseWake(c)
    \/ \E c \in Channels : PeerDisconnect(c)
    \/ Tick

SpecIdle == Init /\ [][NextIdle]_vars

\* The idle channels beside sessions of other callers, with the event loop
\* running every generator that can run and every sleep coming to its end.
NextIdleFair ==
    \/ \E token \in Tokens : SmCreate(token)
    \/ \E c \in Channels, token \in Tokens : SseOpen(c, token)
    \/ \E c \in Channels : SseYieldSession(c)
    \/ \E c \in Channels : SseYieldServerInfo(c)
    \/ \E c \in Channels : SseLoop(c)
    \/ \E c \in Channels : SseWake(c)
    \/ \E c \in Channels : PeerDisconnect(c)

SpecIdleFair ==
    /\ Init
    /\ [][NextIdleFair]_vars
    /\ \A c \in Channels :
          /\ WF_vars(SseYieldSession(c))
          /\ WF_vars(SseYieldServerInfo(c))
          /\ WF_vars(SseLoop(c))
          /\ WF_vars(SseWake(c))

\* ------------------- the session manager and the per-request channel
NextSessions ==
    \/ \E token \in Tokens : SmCreate(token)
    \/ \E session_id \in SmIds, kwargs \in SmUpdates : SmUpdate(session_id, kwargs)
    \/ \E session_id \in SmIds : SmDelete(session_id)
    \/ sreq.pc = "idle" /\ \E session_id \in SmIds : SseReqReceive(session_id, None, PingBody)
    \/ SseReqProgress
    \/ sreq.pc = "dispatch" /\ \E o \in SseOutcomes : SseReqDispatch(o)
    \/ SseReqResult
    \/ SseReqDone
    \/ SseReqClose

SpecSessions == Init /\ [][NextSessions]_vars

\* The per-request channel over every table the session manager can hold.
NextStream ==
    \/ \E token \in Tokens : SmCreate(token)
    \/ \E session_id \in SmIds : SmDelete(session_id)
    \/ sreq.pc = "idle" /\ \E session_id \in SmIds, token \in Tokens, b \in SseBodies :
                             SseReqReceive(session_id, token, b)
    \/ SseReqProgress
    \/ sreq.pc = "dispatch" /\ \E o \in SseOutcomes : SseReqDispatch(o)
    \/ SseReqResult
    \/ SseReqDone
    \/ SseReqClose

SpecStream == Init /\ [][NextStream]_vars

\* ------------------------------------------- call_mcp_tool on its own
InitClient ==
    /\ settings_bearer_token = None
    /\ McpIdle
    /\ gw_in = NoneObj
    /\ gw_out = NoneObj
    /\ SseInitial
    /\ ExtInitial
    /\ api_in = NoneObj
    /\ cli_in \in [endpoint : Endpoints, try_stream : BOOLEAN]

NextClient == CliCall

SpecClient == InitClient /\ [][NextClient]_vars

\* ------------------------------- the session manager under a running clock
\* Keyword arguments of update_session: none, a field, a last_activity value.
TouchUpdates == {EmptyDict, [initialized |-> TRUE], [last_activity |-> 0]}

NextTouch ==
    \/ SmCreate(None)
    \/ \E session_id \in SmIds, kwargs \in TouchUpdates : SmUpdate(session_id, kwargs)
    \/ \E session_id \in SmIds : SmDelete(session_id)
    \/ Tick

SpecTouch == Init /\ [][NextTouch]_vars

\* ------------------------------------------- call_tool_api on its own
InitApi ==
    /\ settings_bearer_token \in {None, "cfgtok"}
    /\ McpIdle
    /\ gw_in = NoneObj
    /\ gw_out = NoneObj
    /\ SseInitial
    /\ ExtInitial
    /\ cli_in = NoneObj
    /\ api_in \in [tool_name : {"get_firing_alerts", "get_specific_alert", "no_such_tool"},
                   token : Tokens, body : ApiBodies, outcome : DispatchOutcomes]

NextApi == ApiCall

SpecApi == InitApi /\ [][NextApi]_vars

\* ------------------------------------------- the concurrent handlers
InitTasks ==
    /\ settings_bearer_token \in {None, "cfgtok"}
    /\ McpIdle
    /\ gw_in = NoneObj
    /\ gw_out = NoneObj
    /\ SseInitial
    /\ ExtInitial
    /\ api_in = NoneObj
    /\ cli_in = NoneObj

NextTasks ==
    \/ \E t \in Tasks : tasks[t].pc = "idle" /\ \E token \in TaskTokens, req \in TaskRequests :
                            TaskReceive(t, token, req)
    \/ \E t \in Tasks : tasks[t].pc = "json" /\ \E o \in TaskOutcomes : TaskDispatch(t, o)
    \/ \E t \in Tasks : TaskReturn(t)
    \/ \E t \in Tasks : TaskClose(t)

SpecTasks == InitTasks /\ [][NextTasks]_vars

\* ------------------------- create_alert and update_alert on their own
\* A value an argument may be given: null, the empty string, a value.
AlertValues == {None, "", "v"}

\* The ways to give some of the fields a value and leave the others out.
Given(fields) == UNION {[S -> AlertValues] : S \in SUBSET fields}

CreateRequired ==
    [title |-> "t", severity |-> "s", receiver |-> "r", description |-> "d",
     datasource |-> "ds", threshold_value |-> "1"]

AlertCalls ==
    {[tool_name |-> "create_alert", kv |-> o @@ CreateRequired] :
       o \in Given({"for_duration", "prom_expr", "log_expr"})}
      \cup {[tool_name |-> "update_alert", kv |-> o @@ [alert_id |-> "a1"]] :
              o \in Given({"title", "lookback_seconds", "prom_expr"})}

InitAlerts ==
    /\ settings_bearer_token = None
    /\ McpIdle
    /\ gw_in = NoneObj
    /\ gw_out = NoneObj
    /\ SseInitial
    /\ ExtInitial
    /\ cli_in = NoneObj
    /\ \E c \in AlertCalls, o \in DispatchOutcomes :
         api_in = [tool_name |-> c.tool_name, token |-> None,
                   body |-> [kind |-> "single", items |-> <<Obj(c.kv)>>],
                   outcome |-> o]

NextAlerts == ApiCall

SpecAlerts == InitAlerts /\ [][NextAlerts]_vars

\* ----------------------- the per-request channel and the three tokens
\* The per-request channel on sessions created with or without a token, with
\* or without a configured default token.
NextPriority ==
    \/ \E token \in {None, "tokB"} : SmCreate(token)
    \/ sreq.pc = "idle" /\ \E session_id \in SmIds, token \in Tokens, b \in SseBodies :
                             SseReqReceive(session_id, token, b)
    \/ SseReqProgress
    \/ sreq.pc = "dispatch" /\ \E o \in SseOutcomes : SseReqDispatch(o)
    \/ SseReqResult
    \/ SseReqDone
    \/ SseReqClose

SpecPriority == InitTasks /\ [][NextPriority]_vars

\* ===================================================== the claims
MethodOf(req) == Get(req.kv, "method", "")

IdOf(req) == Get(req.kv, "id", None)

ParamsOf(req) == Get(req.kv, "params", Obj(EmptyDict))

\* params.name of a request, JSON null when there is none.
NameOf(req) ==
    IF ParamsOf(req).t = "object" THEN Get(ParamsOf(req).kv, "name", JsonNull)
    ELSE JsonNull

IsErrorWithCode(resp, code) ==
    resp # NoneObj /\ "error" \in DOMAIN resp /\ resp.error.code = code

HasExactlyOneOfResultAndError(r) == ("result" \in DOMAIN r) # ("error" \in DOMAIN r)

\* C1: every response object process_mcp_request produces, and every body the
\* /mcp endpoint returns (its 400 and 500 error bodies included), has exactly
\* one of the keys result and error.
C1_ExactlyOneOfResultAndError ==
    /\ \A i \in DOMAIN dispatched :
         dispatched[i].resp # NoneObj =>
           HasExactlyOneOfResultAndError(dispatched[i].resp)
    /\ \A i \in DOMAIN http.content : HasExactlyOneOfResultAndError(http.content[i])

C1_Witness ==
    /\ http.status = 500
    /\ \E i \in DOMAIN dispatched : IsErrorWithCode(dispatched[i].resp, -32601)
    /\ \E i \in DOMAIN dispatched :
         dispatched[i].resp # NoneObj /\ "result" \in DOMAIN dispatched[i].resp

\* The dispatches in which a registered tool ran and returned a ToolCallResult.
ToolReturned(e) ==
    e.invoked # <<>> /\ e.invoked[1].bound /\ e.invoked[1].result # NoneObj

\* C2: when the tool of a tools/call returns a ToolCallResult, whatever the
\* backend did, the response has result and no error, result.content is one
\* text block holding the serialized ToolCallResult, and result.isError is the
\* negation of its success; a backend 404 gives isError with status_code 404.
C2_ToolResultEnvelope ==
    \A i \in DOMAIN dispatched :
      LET e == dispatched[i]
          r == e.invoked[1].result
      IN  ToolReturned(e) =>
            /\ ~e.raised
            /\ "result" \in DOMAIN e.resp
            /\ "error" \notin DOMAIN e.resp
            /\ Len(e.resp.result.content) = 1
            /\ e.resp.result.content[1].type = "text"
            /\ e.resp.result.content[1].text = JsonDumpsResult(r)
            /\ e.resp.result.isError = ~r.success
            /\ (e.outcome.kind = "http" /\ e.outcome.status = 404 =>
                  /\ e.resp.result.isError
                  /\ ~r.success
                  /\ r.status_code = 404)

C2_Witness ==
    \E i \in DOMAIN dispatched :
      /\ ToolReturned(dispatched[i])
      /\ dispatched[i].outcome.kind = "http"
      /\ dispatched[i].outcome.status = 404
      /\ dispatched[i].resp.result.isError

\* C3: when the invocation of a registered tool raises, the response is a
\* successful one: result with isError and one text block carrying the
\* exception message, and no error object.
C3_InvocationExceptionIsEnvelope ==
    \A i \in DOMAIN dispatched :
      LET e == dispatched[i]
      IN  (e.invoked # <<>> /\ e.invoked[1].result = NoneObj) =>
            /\ ~e.raised
            /\ "result" \in DOMAIN e.resp
            /\ "error" \notin DOMAIN e.resp
            /\ e.resp.result.isError
            /\ Len(e.resp.result.content) = 1
            /\ e.resp.result.content[1].text = JsonDumpsError(e.invoked[1].error)

C3_Witness ==
    \E i \in DOMAIN dispatched :
      /\ dispatched[i].invoked # <<>>
      /\ ~dispatched[i].invoked[1].bound
      /\ dispatched[i].resp.result.isError
      /\ mcp_pc = "done"

\* C4: a tools/call whose params.name is no key of TOOLS (a missing name
\* included) gets an error with code -32602 and the id echoed, and neither a
\* tool nor the backend is called.
C4_UnknownToolIsInvalidParams ==
    \A i \in DOMAIN dispatched :
      LET e == dispatched[i]
      IN  (/\ e.req.t = "object"
           /\ MethodOf(e.req) = "tools/call"
           /\ (NameOf(e.req).t # "str" \/ NameOf(e.req).v \notin TOOLS)) =>
            /\ IsErrorWithCode(e.resp, -32602)
            /\ e.resp.id = IdOf(e.req)
            /\ e.invoked = <<>>
            /\ e.requests = <<>>

\* C5: an unrecognized method gets -32601 with the id echoed; an exception
\* other than ValueError raised while a recognized method is dispatched gets
\* -32603 with the id echoed; no other code than these and -32602 is produced.
C5_DispatchErrorCodes ==
    \A i \in DOMAIN dispatched :
      LET e == dispatched[i]
          call == handle_call_tool(ParamsOf(e.req), None, None, e.outcome)
      IN  e.req.t = "object" =>
            /\ ~e.raised
            /\ MethodOf(e.req) \notin RecognizedMethods =>
                 IsErrorWithCode(e.resp, -32601) /\ e.resp.id = IdOf(e.req)
            /\ (MethodOf(e.req) = "tools/call" /\ call.raised /\ call.exc # "ValueError") =>
                 IsErrorWithCode(e.resp, -32603) /\ e.resp.id = IdOf(e.req)
            /\ (e.resp # NoneObj /\ "error" \in DOMAIN e.resp) =>
                 e.resp.error.code \in {-32601, -32602, -32603}

C5_Witness ==
    /\ \E i \in DOMAIN dispatched :
         IsErrorWithCode(dispatched[i].resp, -32601) /\ dispatched[i].resp.id = "2"
    /\ \E i \in DOMAIN dispatched :
         IsErrorWithCode(dispatched[i].resp, -32603) /\ dispatched[i].resp.id = "1"

\* A notification: a request without an id (absent or null), or `initialized`.
IsNotification(req) ==
    req.t = "object" /\ (IdOf(req) = None \/ MethodOf(req) = "initialized")

\* The part of C6 about the dispatcher and the /mcp endpoint: `initialized`
\* makes process_mcp_request return nothing, a single `initialized` is answered
\* 204 without a body and a batch holds no response for it.
InitializedUnansweredOnMcp ==
    /\ \A i \in DOMAIN dispatched :
         (dispatched[i].req.t = "object" /\ MethodOf(dispatched[i].req) = "initialized") =>
           dispatched[i].resp = NoneObj
    /\ (mcp_pc = "done" /\ body.kind = "single" /\ body.items[1].t = "object"
          /\ MethodOf(body.items[1]) = "initialized") =>
         http.status = 204 /\ http.content = <<>>
    /\ (mcp_pc = "done" /\ http.kind = "array") =>
         Len(http.content) =
           Len(SelectSeq(body.items, LAMBDA r : MethodOf(r) # "initialized"))

InitializedUnansweredOnMcp_Witness ==
    /\ mcp_pc = "done"
    /\ http.kind = "array"
    /\ Len(body.items) = 3
    /\ MethodOf(body.items[2]) = "initialized"
    /\ Len(http.content) = 2

\* C6: for a request with method `initialized` the caller receives no response
\* on any transport: nothing from the dispatcher, nothing from /mcp, and on the
\* per-request channel no result event, neither a payload nor an empty {}.
C6_InitializedGetsNoResponse ==
    /\ InitializedUnansweredOnMcp
    /\ (sreq.entry # NoneObj /\ MethodOf(sreq.entry.req) = "initialized") =>
         /\ sreq.entry.resp = NoneObj
         /\ \A i \in DOMAIN sreq.events : sreq.events[i].event # "result"

\* C7: a request whose id is absent or null gets no response, whatever its
\* method.
C7_NoResponseWithoutId ==
    \A i \in DOMAIN dispatched :
      LET e == dispatched[i]
      IN  (e.req.t = "object" /\ IdOf(e.req) = None) => e.resp = NoneObj

IsRequest(e) == ~IsNotification(e.req)

\* C8: the elements of a batch are dispatched in array order and the response
\* array holds exactly the responses of the requests that are no
\* notifications, in their order.
C8_BatchResponsesInOrder ==
    (mcp_pc = "done" /\ http.kind = "array") =>
      LET kept == SelectSeq(dispatched, IsRequest)
      IN  /\ Len(dispatched) = Len(body.items)
          /\ \A i \in DOMAIN dispatched : dispatched[i].req = body.items[i]
          /\ http.content = [i \in 1..Len(kept) |-> kept[i].resp]

\* C9: a single notification is answered 204 without a body, a single request
\* that is no notification with its RpcResponse.
C9_SingleNotificationIs204 ==
    (mcp_pc = "done" /\ body.kind = "single" /\ body.items[1].t = "object") =>
      IF IsNotification(body.items[1])
        THEN http.status = 204 /\ http.content = <<>>
        ELSE http.kind = "object" /\ http.content = <<dispatched[1].resp>>

\* C10: make_request never raises and turns each outcome of its one outbound
\* call into one result: 2xx into success with data, the real status and no
\* error; another status into a failure with the real status; a timeout into
\* 408; any other failure into 500.  success holds iff error is absent.
C10_GatewayClassifiesEveryOutcome ==
    gw_out # NoneObj =>
      LET o == gw_in.outcome
          r == gw_out.val
      IN  /\ ~gw_out.raised
          /\ DOMAIN r \in {{"success", "data", "status_code"},
                           {"success", "error", "status_code"}}
          /\ (o.kind = "http" /\ o.status \in 200..299) =>
               r.success /\ "data" \in DOMAIN r /\ "error" \notin DOMAIN r
                 /\ r.status_code = o.status
          /\ (o.kind = "http" /\ o.status \notin 200..299) =>
               ~r.success /\ r.status_code = o.status
          /\ o.kind = "timeout" => ~r.success /\ r.status_code = 408
          /\ o.kind = "error" => ~r.success /\ r.status_code = 500
          /\ r.success <=> "error" \notin DOMAIN r

C10_Witness ==
    /\ gw_out # NoneObj
    /\ gw_in.outcome.kind = "timeout"
    /\ gw_out.val.status_code = 408
    /\ "error" \in DOMAIN gw_out.val

\* C11: while several requests with different bearer tokens are in flight,
\* every outbound backend call of a task carries the token of the request
\* that task serves, and never the token of another request in flight.
C11_BackendCallCarriesOwnToken ==
    \A t \in Tasks : \A i \in 1..Len(tasks[t].requests) :
       LET h == tasks[t].requests[i].headers
       IN  /\ tasks[t].token # None =>
                 /\ "Authorization" \in DOMAIN h
                 /\ h["Authorization"] = "Bearer " \o tasks[t].token
           /\ \A u \in Tasks \ {t} :
                 (tasks[u].pc # "idle" /\ tasks[u].token # None
                    /\ tasks[u].token # tasks[t].token /\ "Authorization" \in DOMAIN h)
                   => h["Authorization"] # "Bearer " \o tasks[u].token

\* Two requests with different tokens are both suspended in their backend call.
C11_Witness ==
    \E t, u \in Tasks :
       /\ tasks[t].pc = "backend" /\ tasks[u].pc = "backend"
       /\ tasks[t].token = "tokA" /\ tasks[u].token = "tokB"
       /\ Len(tasks[t].requests) = 1 /\ Len(tasks[u].requests) = 1

\* C12: delete_session on an id that is not in the session table (never
\* created, or deleted before) leaves the table as it is, and deleting an id
\* twice leaves the same table as deleting it once.
C12_DeleteSessionIdempotent ==
    \A id \in SmIds :
       /\ id \notin DOMAIN sessions => delete_session(sessions, id) = sessions
       /\ delete_session(delete_session(sessions, id), id) = delete_session(sessions, id)
       /\ id \notin DOMAIN delete_session(sessions, id)

\* The last call deleted, for the second time, an id that was once live, while
\* another session is in the table.
C12_Witness ==
    /\ sm.op = "delete"
    /\ ~sm.hit
    /\ sm.id \in sm.deleted
    /\ sessions # <<>>

\* The ids returned by create_session and not deleted since.
LiveIds == issued \ sm.deleted

SessionTableMatchesHistory ==
    \A id \in SmIds :
       /\ Truthy(get_session(sessions, id)) <=> id \in LiveIds
       /\ id \in LiveIds => get_session(sessions, id).token = sm.token[id]

\* C13: after any sequence of create, update and delete calls, get_session
\* finds exactly the ids that were created and not deleted since, each with the
\* token it was created with or last updated to; a per-request call on a
\* deleted id is answered 404.
C13_GetSessionFindsLiveIds ==
    /\ []SessionTableMatchesHistory
    /\ [][(sreq.pc = "idle" /\ sreq'.pc # "idle" /\ sreq'.sid \in sm.deleted)
            => sreq'.status = 404]_vars

\* A per-request call on a deleted id was answered while another session,
\* whose token an update changed, is live.
C13_Witness ==
    /\ sreq.status = 404
    /\ sreq.sid \in sm.deleted
    /\ \E id \in LiveIds : sm.token[id] = "tokB" /\ sessions[id].token = "tokB"

\* C14: on an idle channel the first event is the session event with the id
\* of a session that is in the table, the second is server_info, every ping
\* comes after both, and the session stays in the table until the generator
\* has seen the disconnection.
C14_IdleChannelEventOrder ==
    \A c \in Channels :
       LET ev == idle[c].events
       IN  /\ Len(ev) >= 1 =>
                 /\ ev[1] = [event |-> "session",
                             data |-> Dumps([session_id |-> idle[c].sid])]
                 /\ idle[c].sid \in issued
           /\ Len(ev) >= 2 => ev[2].event = "server_info"
           /\ \A i \in 1..Len(ev) : ev[i].event = "ping" <=> i >= 3
           /\ idle[c].pc \in {"session", "server_info", "loop", "sleep"} =>
                 idle[c].sid \in DOMAIN sessions

\* A channel has sent its two identity events and a heartbeat, its peer has
\* gone away and the generator has not yet polled: the session is still there.
C14_Witness ==
    \E c \in Channels :
       /\ Len(idle[c].events) >= 3
       /\ idle[c].pc = "sleep"
       /\ ~idle[c].connected
       /\ idle[c].sid \in DOMAIN sessions

\* The stream of the per-request channel serves one request object.
ServesRequest ==
    /\ sreq.status = 200
    /\ sreq.body.kind = "single"
    /\ sreq.body.items[1].t = "object"

C16_UnknownSessionIs404 ==
    /\ [](sreq.status = 404 =>
            /\ sreq.pc = "done"
            /\ sreq.events = <<>>
            /\ sreq.entry = NoneObj
            /\ tool_calls = <<>>
            /\ backend_calls = <<>>)
    /\ [][(sreq.pc = "idle" /\ sreq'.pc # "idle") =>
            /\ sreq'.sid \notin DOMAIN sessions <=> sreq'.status = 404
            /\ sessions' = sessions
            /\ tool_calls' = tool_calls
            /\ backend_calls' = backend_calls]_vars

\* A call on the id of a deleted session was answered 404 while another
\* session is in the table.
C16_Witness ==
    /\ sreq.status = 404
    /\ sreq.sid \in sm.deleted
    /\ sessions # <<>>

\* The call of call_mcp_tool has returned.
Called == cli_in # NoneObj /\ cli_out # NoneObj

\* The response has no `data:` line.
YieldsNoData(resp) == \A i \in 1..Len(resp.lines) : resp.lines[i].field # "data"

\* call_mcp_tool issues at most two POSTs, the streaming one first, and never
\* raises (holds).
ClientPostsAtMostTwice ==
    Called =>
       /\ ~cli_out.raised
       /\ cli_out.posts \in {<<"plain">>, <<"stream">>, <<"stream", "plain">>}
       /\ cli_out.posts[1] = "stream" <=> cli_in.try_stream

\* C17: when the streaming attempt raises, answers a status other than 200, or
\* answers 200 without any `data:` line, call_mcp_tool makes exactly one plain
\* POST and returns its mapped result; it never issues more than two POSTs.
C17_FallsBackOnceInEachCase ==
    (Called /\ cli_in.try_stream) =>
       LET first == cli_in.endpoint.first
       IN  /\ Len(cli_out.posts) <= 2
           /\ (first.kind # "http" \/ first.status # 200 \/ YieldsNoData(first)) =>
                 /\ cli_out.posts = <<"stream", "plain">>
                 /\ cli_out.val = fallback_post(cli_in.endpoint.second)

\* The response the plain POST of the call met.
FallbackResponse ==
    IF Len(cli_out.posts) = 2 THEN cli_in.endpoint.second ELSE cli_in.endpoint.first

\* C18: call_mcp_tool never raises, and its plain POST reports a failure as
\* success=false with an error string and the status of the gateway: the HTTP
\* status for a non-2xx answer, 408 for a timeout, 500 for any other failure.
C18_FallbackMapsLikeGateway ==
    (Called /\ cli_out.posts[Len(cli_out.posts)] = "plain") =>
       LET resp == FallbackResponse
           failed == resp.kind # "http" \/ resp.broken \/ ~is_success(resp.status)
       IN  /\ ~cli_out.raised
           /\ failed => ~cli_out.val.success /\ cli_out.val.error # None
           /\ cli_out.val.status =
                IF resp.kind = "timeout" THEN 408
                ELSE IF resp.kind = "error" \/ resp.broken THEN 500
                ELSE resp.status

\* The response is one line that is a complete JSON document, sent bare or as
\* an SSE data line.
SingleJsonLine(resp) ==
    /\ resp.kind = "http"
    /\ resp.status = 200
    /\ ~resp.broken
    /\ Len(resp.lines) = 1
    /\ IsJsonDoc(resp.lines[1].text)

\* C19: against an endpoint that answers one complete JSON line, the result
\* of call_mcp_tool with streaming equals the result of the plain POST path.
C19_StreamEqualsPlainPost ==
    (Called /\ cli_in.try_stream /\ cli_in.endpoint.second = cli_in.endpoint.first
       /\ SingleJsonLine(cli_in.endpoint.first)) =>
       LET plain == call_mcp_tool(cli_in.endpoint, FALSE).val
       IN  /\ cli_out.val.success = plain.success
           /\ cli_out.val.status = plain.status
           /\ cli_out.val.error = plain.error
           /\ cli_out.val.data.t = plain.data.t
           /\ cli_out.val.data = plain.data

\* The backend call of a dispatch failed: a timeout, an exception or a status
\* that is not 2xx.
BackendFailed(e) == e.outcome.kind # "http" \/ ~is_success(e.outcome.status)

\* C20: an invocation of a registered tool whose arguments bind makes exactly
\* one outbound request, also when that request fails, and the failure is
\* returned once with success false; no dispatch makes more than one backend
\* call, and an invocation that does not bind makes none.
C20_OneAttemptPerInvocation ==
    /\ \A i \in 1..Len(dispatched) :
          LET e == dispatched[i]
          IN  /\ Len(e.invoked) <= 1
              /\ Len(e.requests) <= 1
              /\ \A j \in 1..Len(e.invoked) :
                    IF e.invoked[j].bound
                      THEN /\ Len(e.requests) = 1
                           /\ BackendFailed(e) =>
                                 /\ e.invoked[j].result.success = FALSE
                                 /\ e.resp.result.isError
                      ELSE e.requests = <<>>
    /\ Len(backend_calls) =
         Cardinality({j \in 1..Len(tool_calls) : tool_calls[j].bound})

\* A batch in which one tool call timed out and another was answered 404,
\* each after one request.
C20_Witness ==
    /\ Len(backend_calls) = 2
    /\ \E i, k \in 1..Len(dispatched) :
          /\ dispatched[i].outcome.kind = "timeout"
          /\ dispatched[k].outcome.status = 404
          /\ Len(dispatched[i].requests) = 1
          /\ Len(dispatched[k].requests) = 1

\* C21: POST /api/tools/{tool_name} answers 404 for an unregistered name and
\* invokes nothing; for a registered name it invokes the tool once with the
\* body as arguments and answers with the ToolCallResult of the tool, whatever
\* the body of arguments.
C21_ToolApiReturnsToolCallResult ==
    api_out # NoneObj =>
       IF api_in.tool_name \notin TOOLS
         THEN /\ api_out.status = 404
              /\ api_out.invoked = <<>>
              /\ api_out.requests = <<>>
         ELSE /\ Len(api_out.invoked) = 1
              /\ api_out.invoked[1].tool = api_in.tool_name
              /\ ~api_out.raised
              /\ api_out.status = 200
              /\ "success" \in DOMAIN api_out.content
              /\ api_out.content = api_out.invoked[1].result

\* The element is a request object that is owed a response.
OwedResponse(e) == e.t = "object" /\ ~IsNotification(e)

\* C22: every element of a batch is dispatched whatever happens to the others:
\* the batch is answered with an array that holds a response for each element
\* that is no notification, an error response for an element whose dispatch
\* failed or that is no JSON object.
C22_BatchElementsIndependent ==
    (mcp_pc = "done" /\ body.kind = "list") =>
       /\ http.kind = "array"
       /\ http.status = 200
       /\ Len(dispatched) = Len(body.items)
       /\ \A i \in 1..Len(body.items) :
             /\ OwedResponse(body.items[i]) =>
                  \E j \in 1..Len(http.content) : http.content[j] = dispatched[i].resp
             /\ body.items[i].t # "object" =>
                  \E j \in 1..Len(http.content) : "error" \in DOMAIN http.content[j]

\* C23: a request submitted on the per-request channel of a live session
\* refreshes last_activity of that session to the time of the request.
C23_InteractionRefreshesLastActivity ==
    (sreq.pc = "done" /\ sreq.status = 200 /\ sreq.sid \in DOMAIN sessions) =>
       sessions[sreq.sid].last_activity >= sreq.at

\* update_session(id, **kwargs) at the current time, applied to the table as
\* it is: the fields passed are set, last_activity is the current time, the
\* other fields and the other sessions are as before; an unknown id changes
\* nothing.
UpdateSessionTouches ==
    \A id \in SmIds : \A kwargs \in TouchUpdates :
       LET after == update_session(sessions, id, kwargs, now)
       IN  IF id \in DOMAIN sessions
             THEN /\ DOMAIN after = DOMAIN sessions
                  /\ after[id]["last_activity"] = now
                  /\ \A k \in DOMAIN kwargs \ {"last_activity"} : after[id][k] = kwargs[k]
                  /\ \A k \in DOMAIN sessions[id] \ (DOMAIN kwargs \cup {"last_activity"}) :
                        after[id][k] = sessions[id][k]
             ELSE after = sessions

\* C24: update_session on a live id applies the updates and sets
\* last_activity to the current time whatever was passed; last_activity of a
\* session never decreases; update_session on an unknown id changes nothing.
C24_UpdateSessionRefreshesLastActivity ==
    /\ []UpdateSessionTouches
    /\ [][\A id \in DOMAIN sessions \cap DOMAIN sessions' :
             sessions'[id].last_activity >= sessions[id].last_activity]_vars

\* The last call updated a live session after the clock had advanced: its
\* last_activity is the current time, later than its creation.
C24_Witness ==
    /\ sm.op = "update"
    /\ sm.hit
    /\ sm.id \in DOMAIN sessions
    /\ now > 0
    /\ sessions[sm.id].last_activity = now
    /\ sessions[sm.id].created_at < now

\* The step in which the generator of channel c sees the disconnection.
Detects(c) == idle[c].pc = "loop" /\ idle'[c].pc = "done"

\* C25: the step that detects the disconnection emits nothing and deletes the
\* session of the channel and no other; afterwards the channel emits nothing;
\* with the loop scheduled, a channel whose peer has gone eventually has its
\* session out of the table.
C25_DisconnectDeletesOwnSession ==
    /\ [][\A c \in Channels :
            /\ Detects(c) =>
                 /\ idle'[c].events = idle[c].events
                 /\ DOMAIN sessions' = DOMAIN sessions \ {idle[c].sid}
                 /\ \A k \in DOMAIN sessions' : sessions'[k] = sessions[k]
            /\ idle[c].pc = "done" => idle'[c].events = idle[c].events
            /\ (idle[c].pc \notin {"closed", "loop"} /\ idle[c].sid \in DOMAIN sessions) =>
                 idle[c].sid \in DOMAIN sessions']_vars
    /\ \A c \in Channels :
          (idle[c].pc # "closed" /\ ~idle[c].connected)
            ~> (idle[c].sid \notin DOMAIN sessions)

\* A channel has seen its peer go after a heartbeat: its session is gone, the
\* session of another caller is still in the table.
C25_Witness ==
    \E c \in Channels :
       /\ idle[c].pc = "done"
       /\ Len(idle[c].events) >= 3
       /\ idle[c].sid \notin DOMAIN sessions
       /\ sessions # <<>>

\* The first of the given tokens that is one, or None.
FirstToken(candidates) ==
    LET set == {i \in 1..Len(candidates) : candidates[i] \notin {None, ""}}
    IN  IF set = {} THEN None
        ELSE candidates[CHOOSE i \in set : \A j \in set : i <= j]

\* C26: the backend call made for a request on a per-request channel carries
\* the token of the request if it has one, else the token the session was
\* created with, else the configured default; with none of them it carries no
\* Authorization header; Content-Type: application/json is always attached.
C26_TokenPriority ==
    (sreq.entry # NoneObj /\ sreq.entry.requests # <<>>) =>
       LET h == sreq.entry.requests[1].headers
           expected == FirstToken(<<sreq.bearer, sm.token[sreq.sid],
                                    settings_bearer_token>>)
       IN  /\ h["Content-Type"] = "application/json"
           /\ IF expected = None
                THEN DOMAIN h = {"Content-Type"}
                ELSE /\ DOMAIN h = {"Content-Type", "Authorization"}
                     /\ h["Authorization"] = "Bearer " \o expected

\* A request without a token on a session created with one, while a default
\* token is configured: the call carried the token of the session.
C26_Witness ==
    /\ sreq.entry # NoneObj
    /\ sreq.entry.requests # <<>>
    /\ sreq.bearer = None
    /\ sm.token[sreq.sid] = "tokB"
    /\ settings_bearer_token = "cfgtok"
    /\ sreq.entry.requests[1].headers["Authorization"] = "Bearer tokB"

\* The payloads of the `data:` lines of a response, in arrival order.
DataLines(resp) ==
    LET sel == SelectSeq(resp.lines, LAMBDA l : l.field = "data")
    IN  [i \in 1..Len(sel) |-> sel[i].text]

\* The first response is a stream with status 200 that call_mcp_tool reads.
Streams200 ==
    /\ Called
    /\ cli_in.try_stream
    /\ cli_in.endpoint.first.kind = "http"
    /\ cli_in.endpoint.first.status = 200

\* C27: on a streaming response with status 200 call_mcp_tool returns the
\* parsed value of the first data line that parses, whatever follows that
\* line; when the stream ends with data lines of which none parsed it returns
\* the parsed newline-joined concatenation of them, or that concatenation as
\* text when it does not parse; success is true in all three cases and no
\* second POST is made.
C27_FirstParsingLineElseConcatenation ==
    Streams200 =>
       LET resp == cli_in.endpoint.first
           chunks == DataLines(resp)
           parsing == {i \in 1..Len(chunks) : IsJsonDoc(chunks[i])}
           first == CHOOSE i \in parsing : \A j \in parsing : i <= j
       IN  IF parsing # {}
             THEN /\ cli_out.posts = <<"stream">>
                  /\ cli_out.val = ClientResult(TRUE, 200, Parsed(chunks[first]), None)
           ELSE (chunks # <<>> /\ ~resp.broken) =>
                  /\ cli_out.posts = <<"stream">>
                  /\ cli_out.val =
                       ClientResult(TRUE, 200,
                                    IF IsJsonDoc(Join(chunks)) THEN Parsed(Join(chunks))
                                                               ELSE Text(Join(chunks)),
                                    None)

\* A document sent over two data lines: neither parses, their concatenation
\* does.
C27_Witness ==
    /\ Streams200
    /\ DataLines(cli_in.endpoint.first) = JsonHalves
    /\ ~cli_in.endpoint.first.broken
    /\ cli_out.val.success
    /\ cli_out.val.data = Parsed(JsonHalves[1] \o "\n" \o JsonHalves[2])

\* C28: create_alert and update_alert send no optional argument that is unset
\* and no key with a null value, send every argument that is set with the
\* value given, and update_alert given only alert_id sends an empty payload.
C28_UnsetOmittedSetSent ==
    (api_in # NoneObj /\ api_out # NoneObj /\ api_out.requests # <<>>
       /\ api_in.tool_name \in {"create_alert", "update_alert"}) =>
       LET args == api_in.body.items[1].kv
           payload == api_out.requests[1].json.kv
           IsSet(k) == k \in DOMAIN args /\ args[k] # None
       IN  /\ \A k \in ToolParams(api_in.tool_name).optional :
                ~IsSet(k) => k \notin DOMAIN payload
           /\ \A k \in DOMAIN payload : payload[k] # None
           /\ \A k \in DOMAIN args \ {"alert_id"} :
                IsSet(k) => k \in DOMAIN payload /\ payload[k] = args[k]
           /\ (api_in.tool_name = "update_alert" /\ DOMAIN args = {"alert_id"}) =>
                DOMAIN payload = {}

\* What holds of the two payloads: update_alert sends exactly the arguments
\* that are not None; create_alert sends its ten fixed keys, with the
\* defaults of for_duration and lookback_seconds when these are left out, and
\* prom_expr and log_expr only when they are truthy.
AlertPayloadsAsCoded ==
    (api_in # NoneObj /\ api_out # NoneObj /\ api_out.requests # <<>>
       /\ api_in.tool_name \in {"create_alert", "update_alert"}) =>
       LET args == api_in.body.items[1].kv
           payload == api_out.requests[1].json.kv
       IN  IF api_in.tool_name = "update_alert"
             THEN /\ DOMAIN payload = {k \in DOMAIN args \ {"alert_id"} : args[k] # None}
                  /\ \A k \in DOMAIN payload : payload[k] = args[k]
             ELSE /\ DOMAIN payload =
                       DOMAIN CreateRequired
                         \cup {"for_duration", "lookback_seconds", "include_view_data",
                               "include_dashboard"}
                         \cup {k \in {"prom_expr", "log_expr"} :
                                 k \in DOMAIN args /\ args[k] \notin {None, ""}}
                  /\ payload["for_duration"] = Get(args, "for_duration", "5m")
                  /\ payload["lookback_seconds"] = "600"
                  /\ \A k \in DOMAIN payload \cap DOMAIN args : payload[k] = args[k]

\* Every session of the table other than session_id is in the table after
\* the step as it was before it.
OthersUnchanged(session_id) ==
    \A k \in DOMAIN sessions \ {session_id} :
       k \in DOMAIN sessions' /\ sessions'[k] = sessions[k]

\* C29: a session operation affects only its own id.  create_session adds
\* exactly one id that was not in the table and leaves the sessions there as
\* they were; update_session(id) and delete_session(id) add no id and leave
\* every session other than id as it was; a step of a per-request call, which
\* only looks its session up, changes nothing; under every interleaving of
\* these operations with a per-request call in flight.
C29_SessionOperationsAffectOwnIdOnly ==
    [][/\ sessions' # sessions =>
            /\ sm'.op \in {"create", "update", "delete"}
            /\ OthersUnchanged(sm'.id)
            /\ sm'.op = "create" =>
                 /\ sm'.id \notin DOMAIN sessions
                 /\ DOMAIN sessions' = DOMAIN sessions \cup {sm'.id}
            /\ sm'.op \in {"update", "delete"} =>
                 DOMAIN sessions' \subseteq DOMAIN sessions
       /\ sm'.op = "create" /\ sm'.id # sm.id =>
            /\ sm'.id \notin DOMAIN sessions
            /\ DOMAIN sessions' = DOMAIN sessions \cup {sm'.id}
       /\ sreq' # sreq => sessions' = sessions]_vars

\* A second session was created while a per-request call on the first one was
\* in flight, and the first one is still as it was created.
C29_Witness ==
    /\ sm.op = "create"
    /\ sm.id = "sid2"
    /\ DOMAIN sessions = {"sid1", "sid2"}
    /\ sessions["sid1"].token = "tokA"
    /\ sessions["sid2"].token = None
    /\ sreq.pc \in {"progress", "dispatch", "result"}
    /\ sreq.sid = "sid1"

\* The names of the events the per-request stream has emitted.
EventNames == [i \in 1..Len(sreq.events) |-> sreq.events[i].event]

\* C30: the session is looked up once, when the per-request call arrives, and
\* the token is fixed then: the request's own, else the one of the session.
\* From there on the stream of a request object is never aborted, emits
\* progress, result and done, makes its backend call with that token, and no
\* step of it changes the session table, whether or not the idle channel has
\* deleted the session in the meantime.
C30_SessionCheckedOnce ==
    /\ [](ServesRequest =>
            /\ sreq.pc # "aborted"
            /\ EventNames =
                 CASE sreq.pc \in {"progress"} -> <<>>
                   [] sreq.pc \in {"dispatch", "result"} -> <<"progress">>
                   [] sreq.pc = "finish" -> <<"progress", "result">>
                   [] OTHER -> <<"progress", "result", "done">>
            /\ (sreq.entry # NoneObj /\ sreq.entry.requests # <<>>) =>
                 LET h == sreq.entry.requests[1].headers
                 IN  IF sreq.token \in {None, ""}
                       THEN "Authorization" \notin DOMAIN h
                       ELSE h["Authorization"] = "Bearer " \o sreq.token)
    /\ [][/\ (sreq.pc = "idle" /\ sreq'.status = 200) =>
               sreq'.token = FirstToken(<<sreq'.bearer, sessions[sreq'.sid].token>>)
          /\ (sreq.pc # "idle" /\ sreq'.pc # "idle") => sreq'.token = sreq.token
          /\ sreq' # sreq => sessions' = sessions]_vars

\* The stream of a tools/call request without a token of its own has ended
\* with its three events and a backend call under the token of its session,
\* and the idle channel has deleted that session meanwhile.
C30_Witness ==
    /\ ServesRequest
    /\ sreq.pc = "done"
    /\ sreq.sid \notin DOMAIN sessions
    /\ sreq.bearer = None
    /\ EventNames = <<"progress", "result", "done">>
    /\ Len(sreq.entry.requests) = 1
    /\ "Authorization" \in DOMAIN sreq.entry.requests[1].headers
    /\ sreq.entry.requests[1].headers["Authorization"] = "Bearer tokA"
====
